---- MODULE Spec2Model ----
(***************************************************************************)
(* Model of the lazispace logging core: the bootstrap buffer               *)
(* (bufferedLogger), the text and JSON loggers, the factory New and the    *)
(* global registry with its bootstrap -> upgrade protocol.                 *)
(*                                                                         *)
(* Values of log fields are modelled by their rendered text (a Go `true`   *)
(* is "true", an int 3 is "3"), so that every field value is a string.     *)
(* Time is a tick counter of half seconds.                                 *)
(***************************************************************************)
EXTENDS Integers, Sequences, FiniteSets, TLC

\* ---------------------------------------------------------------- bounds
MaxCalls == 2      \* package-level calls issued by the caller threads
MaxTime == 2       \* last tick of the clock
MaxAttempts == 1   \* UpgradeFromBootstrap calls made by the main thread
MaxOps == 3        \* log operations made directly on a buffer handle
MaxReplays == 2    \* direct ReplayTo calls on a buffer handle
MaxReentries == 1  \* lifecycle calls made outside the bootstrap protocol
MaxEmits == 2      \* log calls made on a logger whose output may fail

Threads == {"t1", "t2"}
TicksPerSecond == 2

\* --------------------------------------------------------------- levels
LevelDebug == 0
LevelInfo == 1
LevelWarn == 2
LevelError == 3
LevelFatal == 4

Levels == LevelDebug .. LevelFatal

String(l) ==
  CASE l = LevelDebug -> "debug"
    [] l = LevelInfo -> "info"
    [] l = LevelWarn -> "warn"
    [] l = LevelError -> "error"
    [] l = LevelFatal -> "fatal"
    [] OTHER -> "unknown"

\* -------------------------------------------------------------- strings
\* Where the code goes through a string rune by rune (strings.ToLower,
\* strings.ToUpper) the string is handled as the sequence of its runes.
LowerLetters ==
  <<"a", "b", "c", "d", "e", "f", "g", "h", "i", "j", "k", "l", "m",
    "n", "o", "p", "q", "r", "s", "t", "u", "v", "w", "x", "y", "z">>
UpperLetters ==
  <<"A", "B", "C", "D", "E", "F", "G", "H", "I", "J", "K", "L", "M",
    "N", "O", "P", "Q", "R", "S", "T", "U", "V", "W", "X", "Y", "Z">>

\* The rune U+0130, LATIN CAPITAL LETTER I WITH DOT ABOVE: the one upper-case
\* letter outside A-Z whose lower case (unicode.CaseRanges, delta -199) is a
\* letter of a level name.
DottedI == "<U+0130>"

LetterAt(c, letters) == CHOOSE i \in DOMAIN letters : letters[i] = c
IsLetterOf(c, letters) == \E i \in DOMAIN letters : letters[i] = c

\* unicode.ToLower and unicode.ToUpper of one rune.
ToLowerRune(c) ==
  IF IsLetterOf(c, UpperLetters) THEN LowerLetters[LetterAt(c, UpperLetters)]
  ELSE IF c = DottedI THEN "i"
  ELSE c
ToUpperRune(c) ==
  IF IsLetterOf(c, LowerLetters) THEN UpperLetters[LetterAt(c, LowerLetters)]
  ELSE c

RECURSIVE Join(_)
Join(w) == IF w = <<>> THEN "" ELSE Head(w) \o Join(Tail(w))

MapRunes(Op(_), w) == [i \in DOMAIN w |-> Op(w[i])]

\* The level names, rune by rune.
DebugRunes == <<"d", "e", "b", "u", "g">>
InfoRunes == <<"i", "n", "f", "o">>
WarnRunes == <<"w", "a", "r", "n">>
WarningRunes == <<"w", "a", "r", "n", "i", "n", "g">>
ErrorRunes == <<"e", "r", "r", "o", "r">>
FatalRunes == <<"f", "a", "t", "a", "l">>
UnknownRunes == <<"u", "n", "k", "n", "o", "w", "n">>

\* The runes that are a letter c in some letter case.
CaseForms(c) ==
  {c} \cup (IF IsLetterOf(c, LowerLetters) THEN {UpperLetters[LetterAt(c, LowerLetters)]} ELSE {})
      \cup (IF c = "i" THEN {DottedI} ELSE {})

\* Every spelling of a name in any letter case.
RECURSIVE Spellings(_)
Spellings(n) ==
  IF n = <<>> THEN {<<>>}
  ELSE {<<c>> \o w : c \in CaseForms(Head(n)), w \in Spellings(Tail(n))}

\* Strings that are no level name in any letter case: the empty string, the
\* rejected inputs of the tests, near misses.
OtherStrings ==
  { <<>>,
    <<"i", "n", "v", "a", "l", "i", "d">>,
    <<"v", "e", "r", "b", "o", "s", "e">>,
    <<"t", "r", "a", "c", "e">>,
    <<"i", "n", "f">>,
    <<"I", "N", "F", "O", "S">>,
    <<" ", "i", "n", "f", "o">>,
    <<"w", "a", "r", "n", " ">>,
    <<"W", "A", "R", "N", "I", "N">>,
    <<"e", "r", "o", "r">>,
    <<"1">>,
    UnknownRunes,
    MapRunes(ToUpperRune, UnknownRunes) }

\* The strings of the model, as rune sequences.
KnownStrings ==
  UNION {Spellings(n) : n \in {DebugRunes, InfoRunes, WarnRunes, WarningRunes,
                                ErrorRunes, FatalRunes}}
    \cup OtherStrings

LowerPairs == {<<Join(w), Join(MapRunes(ToLowerRune, w))>> : w \in KnownStrings}
UpperPairs == {<<Join(w), Join(MapRunes(ToUpperRune, w))>> : w \in KnownStrings}
LowerTable == [s \in {p[1] : p \in LowerPairs} |-> (CHOOSE p \in LowerPairs : p[1] = s)[2]]
UpperTable == [s \in {p[1] : p \in UpperPairs} |-> (CHOOSE p \in UpperPairs : p[1] = s)[2]]

\* ToUpper with a plausible slip: the string is returned as it is.
ToUpperSkipped(s) == s

\* strings.ToUpper: every rune through unicode.ToUpper.
ToUpper(s) == UpperTable[s]

UpperString(l) == ToUpper(String(l))

\* --------------------------------------------------------------- fields
NewField(key, value) == [Key |-> key, Value |-> value]

bootstrapFieldName == "bootstrap"
timestampFieldName == "timestamp"

\* time.Time.Format(time.RFC3339): second precision, the sub-second part of
\* the instant is dropped.
FormatRFC3339(t) == "T" \o ToString(t \div TicksPerSecond) \o "Z"

\* time.Time.Format("15:04:05.000"): millisecond precision.
FormatTextTimestamp(t) ==
  ToString(t \div TicksPerSecond) \o (IF t % TicksPerSecond = 0 THEN ".000" ELSE ".500")

\* The calls made directly on a buffer handle: each severity, without fields
\* or with two fields, one of them under the key the replay itself uses.
BufferCalls ==
  { [level |-> LevelDebug, fields |-> <<>>],
    [level |-> LevelInfo, fields |-> <<NewField("user", "alice"), NewField("bootstrap", "false")>>],
    [level |-> LevelWarn, fields |-> <<>>],
    [level |-> LevelError, fields |-> <<>>],
    [level |-> LevelFatal, fields |-> <<>>] }

\* The levels and field lists the concurrent caller threads use.
ThreadLevels == {LevelInfo, LevelFatal}
ThreadFieldLists == {<<NewField("user", "alice")>>}

\* The buffer handle the main thread passes to UpgradeFromBootstrap: the one
\* InitBootstrap returned.
Handles == {"buffer"}

\* The messages of the callers: the n-th call logs the n-th message.
MsgOf(n) == "m" \o ToString(n)

\* ------------------------------------------------------- configuration
\* cfg.Log of app.Config, as far as the factory reads it.
Config(level, format, console, file) ==
  [Level |-> level, Format |-> format, Console |-> console, File |-> file]

Configs ==
  { Config("debug", "text", TRUE, FALSE),
    Config("WARNING", "json", FALSE, TRUE),
    Config("verbose", "text", TRUE, FALSE),
    Config("info", "text", FALSE, FALSE),
    Config("error", "xml", TRUE, TRUE) }

FormatText == "text"
FormatJSON == "json"

ErrNoLogOutputs == "no log outputs enabled"
ErrUnknownLogFormat == "unknown log format"
ErrUnknownLogLevel == "unknown log level"

\* An error value: the sentinel it wraps and the detail of fmt.Errorf("%w: %s").
NoError == [sentinel |-> "nil", detail |-> ""]
Errorf(sentinel, detail) == [sentinel |-> sentinel, detail |-> detail]
ErrorText(e) == IF e.detail = "" THEN e.sentinel ELSE e.sentinel \o ": " \o e.detail

\* ToLower with a plausible slip: the string is compared as it is given.
ToLowerSkipped(s) == s

\* strings.ToLower: every rune through unicode.ToLower.
ToLower(s) == LowerTable[s]

\* parseLevel with a plausible slip: the fifth level name is accepted too.
parseLevelWithFatal(levelStr) ==
  LET s == ToLower(levelStr) IN
  CASE s = "debug" -> [level |-> LevelDebug, err |-> NoError]
    [] s = "info" -> [level |-> LevelInfo, err |-> NoError]
    [] s = "warn" \/ s = "warning" -> [level |-> LevelWarn, err |-> NoError]
    [] s = "error" -> [level |-> LevelError, err |-> NoError]
    [] s = "fatal" -> [level |-> LevelFatal, err |-> NoError]
    [] OTHER -> [level |-> LevelInfo, err |-> Errorf(ErrUnknownLogLevel, levelStr)]

\* parseLevel, lines 82-95.
parseLevel(levelStr) ==
  LET s == ToLower(levelStr) IN
  CASE s = "debug" -> [level |-> LevelDebug, err |-> NoError]
    [] s = "info" -> [level |-> LevelInfo, err |-> NoError]
    [] s = "warn" \/ s = "warning" -> [level |-> LevelWarn, err |-> NoError]
    [] s = "error" -> [level |-> LevelError, err |-> NoError]
    [] OTHER -> [level |-> LevelInfo, err |-> Errorf(ErrUnknownLogLevel, levelStr)]

\* ---------------------------------------------------------- real loggers
\* A textLogger or jsonLogger value: its minimum level and its writers.
NoLogger == [kind |-> "none", level |-> LevelDebug, writers |-> <<>>]
newTextLogger(level, writers) == [kind |-> "text", level |-> level, writers |-> writers]
newJSONLogger(level, writers) == [kind |-> "json", level |-> level, writers |-> writers]

\* One package-level log call: its level, message and fields.
LogCall(level, msg, fields) == [level |-> level, msg |-> msg, fields |-> fields]

\* The writers New collects (lines 44-58) and their names.
Writers(c) ==
  (IF c.Console THEN <<"console">> ELSE <<>>) \o (IF c.File THEN <<"file">> ELSE <<>>)

\* fmt's %v of a []string.
RenderList(l) ==
  CASE Len(l) = 0 -> "[]"
    [] Len(l) = 1 -> "[" \o l[1] \o "]"
    [] OTHER -> "[" \o l[1] \o " " \o l[2] \o "]"

\* New with a plausible slip: the outputs are checked before the level is
\* parsed.
NewOutputsFirst(c) ==
  LET p == parseLevel(c.Level)
      w == Writers(c)
      l1 == LogCall(LevelDebug, "initializing logger",
                    <<NewField("level", c.Level), NewField("format", c.Format)>>)
  IN
  IF Len(w) = 0
  THEN [logger |-> NoLogger, err |-> Errorf(ErrNoLogOutputs, ""),
        logs |-> <<l1, LogCall(LevelError, "no log outputs enabled in configuration", <<>>)>>]
  ELSE IF p.err # NoError
  THEN [logger |-> NoLogger, err |-> p.err,
        logs |-> <<l1, LogCall(LevelError, "failed to parse log level",
                     <<NewField("level", c.Level), NewField("error", ErrorText(p.err))>>)>>]
  ELSE IF c.Format = FormatText
  THEN [logger |-> newTextLogger(p.level, w), err |-> NoError, logs |-> <<l1>>]
  ELSE IF c.Format = FormatJSON
  THEN [logger |-> newJSONLogger(p.level, w), err |-> NoError, logs |-> <<l1>>]
  ELSE [logger |-> NoLogger, err |-> Errorf(ErrUnknownLogFormat, c.Format), logs |-> <<l1>>]

\* New(cfg): the logger it returns, its error, and the package-level log
\* calls it makes on the way, in order.
New(c) ==
  LET p == parseLevel(c.Level)
      w == Writers(c)
      l1 == LogCall(LevelDebug, "initializing logger",
                    <<NewField("level", c.Level), NewField("format", c.Format)>>)
      l4 == LogCall(LevelDebug, "logger outputs configured",
                    <<NewField("outputs", RenderList(w))>>)
      ok(fmt) == LogCall(LevelInfo, "logger initialized successfully",
                    <<NewField("format", fmt), NewField("level", String(p.level))>>)
  IN
  IF p.err # NoError
  THEN [logger |-> NoLogger, err |-> p.err,
        logs |-> <<l1, LogCall(LevelError, "failed to parse log level",
                     <<NewField("level", c.Level), NewField("error", ErrorText(p.err))>>)>>]
  ELSE IF Len(w) = 0
  THEN [logger |-> NoLogger, err |-> Errorf(ErrNoLogOutputs, ""),
        logs |-> <<l1, LogCall(LevelError, "no log outputs enabled in configuration", <<>>)>>]
  ELSE IF c.Format = FormatText
  THEN [logger |-> newTextLogger(p.level, w), err |-> NoError, logs |-> <<l1, l4, ok("text")>>]
  ELSE IF c.Format = FormatJSON
  THEN [logger |-> newJSONLogger(p.level, w), err |-> NoError, logs |-> <<l1, l4, ok("json")>>]
  ELSE [logger |-> NoLogger, err |-> Errorf(ErrUnknownLogFormat, c.Format),
        logs |-> <<l1, l4, LogCall(LevelError, "unknown log format",
                     <<NewField("format", c.Format)>>)>>]

\* The terminate effect the real loggers call: the exit status the process
\* ends with (0 stands for a process that is still running).
osExit(code) == code

\* textLog with a plausible slip: the fields are not written.
textLogNoFields(level, msg, fields, t) ==
  [format |-> "text", time |-> FormatTextTimestamp(t), level |-> level,
   msg |-> msg, fields |-> <<>>]

\* textLogger.log: the line written for one call.
textLog(level, msg, fields, t) ==
  [format |-> "text", time |-> FormatTextTimestamp(t), level |-> level,
   msg |-> msg, fields |-> fields]

\* jsonEntry with a plausible slip: a key that is already set is kept.
RECURSIVE jsonEntryKeepsFirst(_, _)
jsonEntryKeepsFirst(entry, fields) ==
  IF fields = <<>> THEN entry
  ELSE LET f == Head(fields) IN
       jsonEntryKeepsFirst([k \in DOMAIN entry \cup {f.Key} |->
                              IF k \in DOMAIN entry THEN entry[k] ELSE f.Value], Tail(fields))

\* jsonLogger.log, lines 1132-1140: the entry map, later keys overwrite.
RECURSIVE jsonEntry(_, _)
jsonEntry(entry, fields) ==
  IF fields = <<>> THEN entry
  ELSE LET f == Head(fields) IN
       jsonEntry([k \in DOMAIN entry \cup {f.Key} |->
                    IF k = f.Key THEN f.Value ELSE entry[k]], Tail(fields))

\* jsonLog with a plausible slip: the reserved keys are set after the fields.
jsonLogReservedLast(level, msg, fields, t) ==
  [format |-> "json",
   obj |-> jsonEntry(<<>>, fields \o <<NewField("time", FormatRFC3339(t)),
                                       NewField("level", level), NewField("msg", msg)>>)]

\* jsonLogger.log, lines 1132-1140: the line of one call.
jsonLog(level, msg, fields, t) ==
  [format |-> "json",
   obj |-> jsonEntry([k \in {"time", "level", "msg"} |->
                        CASE k = "time" -> FormatRFC3339(t)
                          [] k = "level" -> level
                          [] OTHER -> msg], fields)]

\* Enabled with a plausible slip: no level is filtered.
EnabledAlways(lg, level) == TRUE

\* Enabled with a plausible slip: the comparison is strict.
EnabledStrict(lg, level) == level = LevelFatal \/ lg.level < level

\* The level filter of Debug/Info/Warn/Error (l.level <= LevelX); Fatal
\* writes unconditionally.
Enabled(lg, level) == level = LevelFatal \/ lg.level <= level

\* LoggerOp with a plausible slip: Fatal ends the process before it writes.
LoggerOpFatalExitsFirst(lg, level, msg, fields, t) ==
  [lines |-> IF ~Enabled(lg, level) \/ level = LevelFatal THEN <<>>
             ELSE IF lg.kind = "text" THEN <<textLog(UpperString(level), msg, fields, t)>>
             ELSE <<jsonLog(String(level), msg, fields, t)>>,
   exit |-> IF level = LevelFatal THEN osExit(1) ELSE 0]

\* LoggerOp with a plausible slip: Fatal writes but does not end the process.
LoggerOpFatalReturns(lg, level, msg, fields, t) ==
  [lines |-> IF ~Enabled(lg, level) THEN <<>>
             ELSE IF lg.kind = "text" THEN <<textLog(UpperString(level), msg, fields, t)>>
             ELSE <<jsonLog(String(level), msg, fields, t)>>,
   exit |-> 0]

\* One operation of a real logger: the lines it writes to its output and the
\* exit status it ends the process with.
LoggerOp(lg, level, msg, fields, t) ==
  [lines |-> IF ~Enabled(lg, level) THEN <<>>
             ELSE IF lg.kind = "text" THEN <<textLog(UpperString(level), msg, fields, t)>>
             ELSE <<jsonLog(String(level), msg, fields, t)>>,
   exit |-> IF level = LevelFatal THEN osExit(1) ELSE 0]

\* ------------------------------------------------------- bootstrap buffer
logEntry(t, level, msg, fields) ==
  [timestamp |-> t, level |-> level, msg |-> msg, fields |-> fields]

\* The capacity NewBuffered allocates the entries with.
bootstrapBufferCapacity == 20

\* append with a plausible slip: the capacity is a limit, the oldest entry
\* makes room for the new one.
appendEvicting(es, level, msg, fields, t) ==
  IF Len(es) >= bootstrapBufferCapacity
  THEN Append(Tail(es), logEntry(t, level, msg, fields))
  ELSE Append(es, logEntry(t, level, msg, fields))

\* append with a plausible slip: the entry is stored twice.
appendTwice(es, level, msg, fields, t) ==
  Append(Append(es, logEntry(t, level, msg, fields)), logEntry(t, level, msg, fields))

\* bufferedLogger.append: the entries after the call.
append(es, level, msg, fields, t) == Append(es, logEntry(t, level, msg, fields))

\* BufferedOp with a plausible slip: the buffer filters Debug as a logger of
\* minimum level Info would.
BufferedOpDropsDebug(es, level, msg, fields, t) ==
  [entries |-> IF level = LevelDebug THEN es ELSE append(es, String(level), msg, fields, t),
   exit |-> 0]

\* BufferedOp with a plausible slip: Fatal exits as the real loggers do.
BufferedOpFatalExits(es, level, msg, fields, t) ==
  [entries |-> append(es, String(level), msg, fields, t),
   exit |-> IF level = LevelFatal THEN 1 ELSE 0]

\* bufferedLogger.Debug/Info/Warn/Error/Fatal: the entries after the call and
\* the exit status the call ends the process with (none: Fatal only buffers).
BufferedOp(es, level, msg, fields, t) ==
  [entries |-> append(es, String(level), msg, fields, t), exit |-> 0]

\* fieldsWithBootstrap with a plausible slip: the two fields are appended
\* after the entry's own fields.
fieldsWithBootstrapLast(entry) ==
  entry.fields \o <<NewField(bootstrapFieldName, "true"),
                    NewField(timestampFieldName, FormatRFC3339(entry.timestamp))>>

\* ReplayTo, lines 115-118: the fields an entry is replayed with.
fieldsWithBootstrap(entry) ==
  <<NewField(bootstrapFieldName, "true"),
    NewField(timestampFieldName, FormatRFC3339(entry.timestamp))>> \o entry.fields

\* ReplayLevel with a plausible slip: a warn entry is replayed through Info.
ReplayLevelWarnAsInfo(entry) ==
  CASE entry.level = String(LevelDebug) -> LevelDebug
    [] entry.level = String(LevelInfo) -> LevelInfo
    [] entry.level = String(LevelWarn) -> LevelInfo
    [] entry.level = String(LevelError) -> LevelError
    [] entry.level = String(LevelFatal) -> LevelFatal
    [] OTHER -> -1

\* ReplayTo, lines 120-133: the level of the target operation an entry is
\* replayed through (-1: no case of the switch matches, nothing is called).
ReplayLevel(entry) ==
  CASE entry.level = String(LevelDebug) -> LevelDebug
    [] entry.level = String(LevelInfo) -> LevelInfo
    [] entry.level = String(LevelWarn) -> LevelWarn
    [] entry.level = String(LevelError) -> LevelError
    [] entry.level = String(LevelFatal) -> LevelFatal
    [] OTHER -> -1

\* ClearBuffer with a plausible slip: the entries are kept.
ClearBufferKeeps(es) == es

\* ReplayTo, line 137: the entries left after a complete iteration.
ClearBuffer(es) == <<>>

\* Count
Count(es) == Len(es)

\* ------------------------------------------------------------------ state
VARIABLES
  global,         \* the current logger of the registry: "nil", "buffer" or "real"
  entries,        \* bufferedLogger.entries
  mu,             \* bufferedLogger.mu: "free" or its holder
  idx,            \* position of ReplayTo's loop; 0 when no replay is running
  real,           \* the real logger built by New (or the target of a direct replay)
  calls,          \* the operations invoked on the real logger, in order
  output,         \* the lines written to the real logger's output, in order
  exited,         \* exit status of the process; 0 while it runs
  now,            \* the clock
  pc, snap, cur,  \* per caller thread: position, snapshot of global, current call
  issued,         \* number of package-level calls the caller threads have begun
  mpc,            \* position of the main thread
  cfg, handle,    \* arguments of the main thread's current Init/Upgrade call
  bufferedCount,  \* UpgradeFromBootstrap's local
  pending,        \* log calls New still has to make
  err,            \* the error the main thread's last registry call returned
  attempts,       \* UpgradeFromBootstrap calls begun
  appended,       \* history: every entry ever appended to the buffer
  done,           \* history: the package-level calls of the threads that returned
  replays,        \* history: per ReplayTo, the buffer at its start and the appends
                  \* made since the previous ReplayTo returned
  sinceReplay,    \* history: appends since the last ReplayTo returned
  last,           \* history: the last operation made directly on the buffer handle
  nops,           \* history: number of operations made directly on the handle
  realLogger,     \* the local of Init/UpgradeFromBootstrap that holds what New returned
  budget,         \* lifecycle calls the main thread may still begin out of protocol
  before,         \* history: global and the real logger when the current Init began
  arg, ret,       \* the argument and the result of a function called on its own
  sink,           \* the writes that reached the output of the logger under test
  stderr,         \* the messages written to os.Stderr
  emitted,        \* history: per call on the logger under test, what it wrote
                  \* (with concurrent callers: per Write, the call that made it)
  globalMu        \* the registry's RWMutex: its writer and its readers

bufVars == <<entries, mu, idx, appended, replays, sinceReplay>>
sinkVars == <<real, calls, output>>
threadVars == <<pc, snap, cur, issued, done>>
mainVars == <<mpc, cfg, handle, bufferedCount, pending, err, attempts>>
handleVars == <<last, nops>>
callVars == <<realLogger, budget, before>>
extVars == <<arg, ret, sink, stderr, emitted>>
vars == <<global, bufVars, sinkVars, exited, now, threadVars, mainVars, handleVars, callVars,
          extVars, globalMu>>

NoCall == LogCall(LevelDebug, "", <<>>)
NoOp == [op |-> "none", level |-> LevelDebug, ret |-> 0]
NoArg == [fn |-> "none"]
Unlocked == [w |-> "none", r |-> {}]

InitCommon ==
  /\ global = "nil"
  /\ entries = <<>> /\ mu = "free" /\ idx = 0
  /\ calls = <<>> /\ output = <<>>
  /\ exited = 0
  /\ now = 0
  /\ pc = [t \in Threads |-> "idle"]
  /\ snap = [t \in Threads |-> "nil"]
  /\ cur = [t \in Threads |-> NoCall]
  /\ issued = 0
  /\ cfg = Config("", "", FALSE, FALSE) /\ handle = "nil"
  /\ bufferedCount = 0 /\ pending = <<>> /\ err = NoError /\ attempts = 0
  /\ appended = <<>> /\ done = {} /\ replays = <<>> /\ sinceReplay = 0
  /\ last = NoOp /\ nops = 0
  /\ realLogger = NoLogger
  /\ before = [global |-> "nil", real |-> NoLogger]
  /\ arg = NoArg /\ ret = NoArg
  /\ sink = <<>> /\ stderr = <<>> /\ emitted = <<>>
  /\ globalMu = Unlocked

\* The process as it starts: no logger installed.
Init == InitCommon /\ real = NoLogger /\ mpc = "start" /\ budget = 0

\* time passes
Tick ==
  /\ exited = 0
  /\ now < MaxTime
  /\ now' = now + 1
  /\ UNCHANGED <<global, bufVars, sinkVars, exited, threadVars, mainVars, handleVars, callVars, extVars, globalMu>>

\* MuLock with a plausible slip: the buffer is used without its lock.
MuLockSkipped == TRUE

\* b.mu.Lock() returns: no other operation on the buffer holds the mutex.
MuLock == mu = "free"

\* An operation invoked on the real logger, as the sink side sees it.
Invocation(level, msg, fields, via) ==
  [level |-> level, msg |-> msg, fields |-> fields, via |-> via, rid |-> Len(replays)]

\* logger.X(msg, fields...) on the logger value lg: the effect on the buffer
\* or on the real logger, and the exit status the operation itself produces.
Deliver(lg, c, exit) ==
  CASE lg = "buffer" ->
         LET r == BufferedOp(entries, c.level, c.msg, c.fields, now) IN
         /\ MuLock
         /\ entries' = r.entries
         /\ appended' = appended \o SubSeq(r.entries, Len(entries) + 1, Len(r.entries))
         /\ sinceReplay' = sinceReplay + 1
         /\ exit = r.exit
         /\ UNCHANGED <<mu, idx, replays, sinkVars>>
    [] lg = "real" ->
         LET r == LoggerOp(real, c.level, c.msg, c.fields, now) IN
         /\ calls' = Append(calls, Invocation(c.level, c.msg, c.fields, "direct"))
         /\ output' = output \o r.lines
         /\ exit = r.exit
         /\ UNCHANGED <<bufVars, real>>
    [] OTHER ->
         /\ exit = 0
         /\ UNCHANGED <<bufVars, sinkVars>>

\* The package-level Fatal ends with os.Exit(1) whatever the logger did.
PackageExit(level, loggerExit) ==
  IF loggerExit # 0 THEN loggerExit ELSE IF level = LevelFatal THEN 1 ELSE 0

\* globalMu.RLock() returns: no thread holds the write lock.
CanRead == globalMu.w = "none"

\* globalMu.Lock() of the main thread returns: no thread reads, and no other
\* thread holds the write lock (the main thread holds it when it took it in
\* a step of its own).
CanWrite == globalMu.r = {} /\ globalMu.w \in {"none", "main"}

\* Debug/Info/Warn/Error/Fatal of the package, first half: under the read
\* lock, take the snapshot of global.
Snapshot(t, level, fields) ==
  /\ exited = 0
  /\ pc[t] = "idle"
  /\ CanRead
  /\ issued < MaxCalls
  /\ issued' = issued + 1
  /\ cur' = [cur EXCEPT ![t] = LogCall(level, MsgOf(issued + 1), fields)]
  /\ snap' = [snap EXCEPT ![t] = global]
  /\ pc' = [pc EXCEPT ![t] = "snap"]
  /\ UNCHANGED <<global, bufVars, sinkVars, exited, now, done, mainVars, handleVars, callVars, extVars, globalMu>>

\* Receiver with a plausible slip: the call goes to whatever logger is current
\* when it is made, the snapshot is not used.
ReceiverCurrent(t) == global

\* The logger a call of thread t is made on: the local `logger` that holds
\* the snapshot.
Receiver(t) == snap[t]

\* second half: outside the lock, call the snapshot (if it is not nil).
Invoke(t) ==
  /\ exited = 0
  /\ pc[t] = "snap"
  /\ \E exit \in {0, 1} :
       /\ Deliver(Receiver(t), cur[t], exit)
       /\ exited' = PackageExit(cur[t].level, exit)
  /\ pc' = [pc EXCEPT ![t] = "idle"]
  /\ cur' = [cur EXCEPT ![t] = NoCall]
  /\ snap' = [snap EXCEPT ![t] = "nil"]
  /\ done' = done \cup {[call |-> cur[t], snap |-> snap[t]]}
  /\ UNCHANGED <<global, now, issued, mainVars, handleVars, callVars, extVars, globalMu>>

\* A package-level call of the main thread. Only the main thread assigns
\* global, so its snapshot is the value global has when the logger is called.
MainLog(c) ==
  \E exit \in {0, 1} :
    /\ Deliver(global, c, exit)
    /\ exited' = PackageExit(c.level, exit)

\* ----------------------------------------------------------- main thread
\* The positions of the main thread between two calls of Init, InitBootstrap
\* and UpgradeFromBootstrap.
Between == {"start", "start_failed", "steady", "ready", "done"}

\* Whether the main thread may begin a lifecycle call: at the positions of
\* the bootstrap protocol where the call belongs (inProtocol), or anywhere
\* between two calls while the budget of out-of-protocol calls lasts.
CanBegin(inProtocol) == mpc \in inProtocol \/ (mpc \in Between /\ budget > 0)
BudgetAfter(inProtocol) == IF mpc \in inProtocol THEN budget ELSE budget - 1

\* InitBootstrap, lines 186-190: install a new buffer as the current logger.
InitBootstrap ==
  /\ exited = 0
  /\ CanBegin({"start", "boot_install"})
  /\ CanWrite
  /\ budget' = BudgetAfter({"start", "boot_install"})
  /\ globalMu' = Unlocked
  /\ global' = "buffer"
  /\ entries' = <<>>
  /\ appended' = <<>>
  /\ sinceReplay' = 0
  /\ mpc' = "boot_log"
  /\ UNCHANGED <<mu, idx, replays, sinkVars, exited, now, threadVars, cfg, handle,
                 bufferedCount, pending, err, attempts, handleVars, realLogger, before, extVars>>

\* InitBootstrap, lines 192-193: log through the registry and return the buffer.
InitBootstrapLog ==
  /\ exited = 0
  /\ mpc = "boot_log"
  /\ MainLog(LogCall(LevelDebug, "bootstrap logger initialized", <<>>))
  /\ mpc' = "ready"
  /\ UNCHANGED <<global, now, threadVars, cfg, handle, bufferedCount, pending, err,
                 attempts, handleVars, callVars, extVars, globalMu>>

\* Init(cfg), line 104: the call begins with a Debug through the registry;
\* then New begins.
Init_(c) ==
  /\ exited = 0
  /\ CanBegin({"start"})
  /\ budget' = BudgetAfter({"start"})
  /\ cfg' = c
  /\ before' = [global |-> global, real |-> real]
  /\ MainLog(LogCall(LevelDebug, "initializing global logger", <<>>))
  /\ pending' = New(c).logs
  /\ mpc' = "init_new"
  /\ UNCHANGED <<global, now, threadVars, handle, bufferedCount, err, attempts, handleVars,
                 realLogger, extVars, globalMu>>

\* AfterInitNew with a plausible slip: the error of New is not checked.
AfterInitNewUnchecked(e) == "init_install"

\* Init, lines 106-110: where the call goes once New returned e.
AfterInitNew(e) == IF e # NoError THEN "init_fail" ELSE "init_install"

\* New(cfg) inside Init: one of its log calls; after the last one New returns
\* (lines 106-107).
InitNew ==
  /\ exited = 0
  /\ mpc = "init_new"
  /\ pending # <<>>
  /\ MainLog(Head(pending))
  /\ pending' = Tail(pending)
  /\ IF Len(pending) > 1
     THEN UNCHANGED <<mpc, realLogger>>
     ELSE /\ mpc' = AfterInitNew(New(cfg).err)
          /\ realLogger' = New(cfg).logger
  /\ UNCHANGED <<global, now, threadVars, cfg, handle, bufferedCount, err, attempts, handleVars,
                 budget, before, extVars, globalMu>>

\* lines 107-110: the factory failed.
InitFail ==
  /\ exited = 0
  /\ mpc = "init_fail"
  /\ MainLog(LogCall(LevelError, "failed to initialize global logger",
                     <<NewField("error", ErrorText(New(cfg).err))>>))
  /\ err' = New(cfg).err
  /\ mpc' = "start_failed"
  /\ UNCHANGED <<global, now, threadVars, cfg, handle, bufferedCount, pending, attempts,
                 handleVars, callVars, extVars, globalMu>>

\* lines 112-114: the swap.
InitInstall ==
  /\ exited = 0
  /\ mpc = "init_install"
  /\ CanWrite
  /\ globalMu' = Unlocked
  /\ real' = realLogger
  /\ global' = "real"
  /\ mpc' = "init_info"
  /\ UNCHANGED <<bufVars, calls, output, exited, now, threadVars, cfg, handle,
                 bufferedCount, pending, err, attempts, handleVars, callVars, extVars>>

\* lines 116-117.
InitLog ==
  /\ exited = 0
  /\ mpc = "init_info"
  /\ MainLog(LogCall(LevelInfo, "global logger initialized", <<>>))
  /\ mpc' = "steady"
  /\ err' = NoError
  /\ UNCHANGED <<global, now, threadVars, cfg, handle, bufferedCount, pending,
                 attempts, handleVars, callVars, extVars, globalMu>>

\* UpgradeSteps with a plausible slip: the replay is deferred to the end of
\* the call, after the swap and the final Info.
UpgradeStepsReplayLast == <<"up_install", "up_info", "up_replay", "done">>

\* UpgradeSteps with a plausible slip: the swap is made before the replay.
UpgradeStepsInstallFirst == <<"up_install", "up_replay", "up_info", "done">>

\* UpgradeFromBootstrap, lines 211-222: what follows a successful New.
UpgradeSteps == <<"up_replay", "up_install", "up_info", "done">>

StepAfter(s) == UpgradeSteps[(CHOOSE i \in 1 .. Len(UpgradeSteps) : UpgradeSteps[i] = s) + 1]

\* AfterNew with a plausible slip: the error of New is not checked.
AfterNewUnchecked(e) == UpgradeSteps[1]

\* UpgradeFromBootstrap, lines 205-209: where the call goes once New returned e.
AfterNew(e) == IF e # NoError THEN "up_fail" ELSE UpgradeSteps[1]

\* Whether InitBootstrap has returned a buffer the caller can pass on: every
\* buffer it returns holds at least InitBootstrap's own message.
HandleReturned == appended # <<>>

\* UpgradeFromBootstrap, lines 198-201.
UpgradeCount(c, h) ==
  /\ exited = 0
  /\ CanBegin({"ready"})
  /\ budget' = BudgetAfter({"ready"})
  /\ h # "nil" => HandleReturned
  /\ attempts < MaxAttempts
  /\ MuLock
  /\ attempts' = attempts + 1
  /\ cfg' = c
  /\ handle' = h
  /\ bufferedCount' = IF h # "nil" THEN Count(entries) ELSE 0
  /\ mpc' = "up_debug"
  /\ UNCHANGED <<global, bufVars, sinkVars, exited, now, threadVars, pending, err, handleVars,
                 realLogger, before, extVars, globalMu>>

\* line 202, then New begins.
UpgradeDebug ==
  /\ exited = 0
  /\ mpc = "up_debug"
  /\ MainLog(LogCall(LevelDebug, "upgrading from bootstrap logger",
                     <<NewField("buffered_logs", ToString(bufferedCount))>>))
  /\ pending' = New(cfg).logs
  /\ mpc' = "up_new"
  /\ UNCHANGED <<global, now, threadVars, cfg, handle, bufferedCount, err, attempts, handleVars, callVars, extVars, globalMu>>

\* New(cfg) inside the upgrade: one of its log calls; after the last one New
\* returns (lines 205-209).
UpgradeNew ==
  /\ exited = 0
  /\ mpc = "up_new"
  /\ pending # <<>>
  /\ MainLog(Head(pending))
  /\ pending' = Tail(pending)
  /\ IF Len(pending) > 1
     THEN UNCHANGED <<mpc, realLogger>>
     ELSE /\ mpc' = AfterNew(New(cfg).err)
          /\ realLogger' = New(cfg).logger
  /\ UNCHANGED <<global, now, threadVars, cfg, handle, bufferedCount, err, attempts, handleVars,
                 budget, before, extVars, globalMu>>

\* lines 206-209: the factory failed.
UpgradeFail ==
  /\ exited = 0
  /\ mpc = "up_fail"
  /\ MainLog(LogCall(LevelError, "failed to create real logger during upgrade",
                     <<NewField("error", ErrorText(New(cfg).err))>>))
  /\ err' = New(cfg).err
  /\ mpc' = "ready"
  /\ UNCHANGED <<global, now, threadVars, cfg, handle, bufferedCount, pending, attempts,
                 handleVars, callVars, extVars, globalMu>>

\* lines 212-214 with ReplayTo's lock: the replay into the new logger begins
\* (or is skipped for a nil handle).
UpgradeReplay ==
  /\ exited = 0
  /\ mpc = "up_replay"
  /\ IF handle = "nil"
     THEN /\ mpc' = StepAfter("up_replay")
          /\ UNCHANGED <<mu, idx, replays>>
     ELSE /\ MuLock
          /\ mu' = "main"
          /\ idx' = 1
          /\ replays' = Append(replays, [before |-> entries, fresh |-> sinceReplay])
          /\ mpc' = "up_replaying"
  /\ UNCHANGED <<global, entries, appended, sinceReplay, sinkVars, exited, now,
                 threadVars, cfg, handle, bufferedCount, pending, err, attempts, handleVars, callVars, extVars, globalMu>>

\* The logger a running ReplayTo writes to: UpgradeFromBootstrap passes the
\* logger New returned, a direct caller its own target.
ReplayTarget == IF mpc = "up_replaying" THEN realLogger ELSE real

\* ReplayTo, lines 113-134: one iteration of the loop.
ReplayEntry ==
  /\ exited = 0
  /\ mpc \in {"up_replaying", "replaying"}
  /\ idx >= 1 /\ idx <= Len(entries)
  /\ LET entry == entries[idx]
         level == ReplayLevel(entry)
         fields == fieldsWithBootstrap(entry)
         r == LoggerOp(ReplayTarget, level, entry.msg, fields, now)
     IN IF level = -1
        THEN UNCHANGED <<calls, output, exited>>
        ELSE /\ calls' = Append(calls, Invocation(level, entry.msg, fields, "replay"))
             /\ output' = output \o r.lines
             /\ exited' = r.exit
  /\ idx' = idx + 1
  /\ UNCHANGED <<global, entries, mu, appended, replays, sinceReplay, real, now,
                 threadVars, mainVars, handleVars, callVars, extVars, globalMu>>

\* ReplayTo, lines 136-138: clear the buffer, unlock, return.
ReplayEnd ==
  /\ exited = 0
  /\ mpc \in {"up_replaying", "replaying"}
  /\ idx = Len(entries) + 1
  /\ entries' = ClearBuffer(entries)
  /\ mu' = "free"
  /\ idx' = 0
  /\ sinceReplay' = 0
  /\ IF mpc = "up_replaying"
     THEN /\ mpc' = StepAfter("up_replay")
          /\ UNCHANGED handleVars
     ELSE /\ mpc' = "handle"
          /\ last' = [op |-> "ReplayTo", level |-> LevelDebug, ret |-> 0]
          /\ nops' = nops + 1
  /\ UNCHANGED <<global, appended, replays, sinkVars, exited, now, threadVars, cfg, handle,
                 bufferedCount, pending, err, attempts, callVars, extVars, globalMu>>

\* lines 216-219: the swap.
UpgradeInstall ==
  /\ exited = 0
  /\ mpc = "up_install"
  /\ CanWrite
  /\ globalMu' = Unlocked
  /\ real' = realLogger
  /\ global' = "real"
  /\ mpc' = StepAfter("up_install")
  /\ UNCHANGED <<bufVars, calls, output, exited, now, threadVars, cfg, handle,
                 bufferedCount, pending, err, attempts, handleVars, callVars, extVars>>

\* lines 221-222.
UpgradeInfo ==
  /\ exited = 0
  /\ mpc = "up_info"
  /\ MainLog(LogCall(LevelInfo, "upgraded from bootstrap logger",
                     <<NewField("replayed_logs", ToString(bufferedCount))>>))
  /\ err' = NoError
  /\ mpc' = StepAfter("up_info")
  /\ UNCHANGED <<global, now, threadVars, cfg, handle, bufferedCount, pending, attempts,
                 handleVars, callVars, extVars, globalMu>>

Next ==
  \/ \E t \in Threads, level \in ThreadLevels, fields \in ThreadFieldLists :
       Snapshot(t, level, fields)
  \/ \E t \in Threads : Invoke(t)
  \/ InitBootstrap
  \/ InitBootstrapLog
  \/ \E c \in Configs : Init_(c)
  \/ InitNew
  \/ InitFail
  \/ InitInstall
  \/ InitLog
  \/ \E c \in Configs, h \in Handles : UpgradeCount(c, h)
  \/ UpgradeDebug
  \/ UpgradeNew
  \/ UpgradeFail
  \/ UpgradeReplay
  \/ ReplayEntry
  \/ ReplayEnd
  \/ UpgradeInstall
  \/ UpgradeInfo

Spec == Init /\ [][Next]_vars

\* ----------------------------------------- the registry used by one thread
\* One thread calls Init, InitBootstrap, UpgradeFromBootstrap and the
\* package-level log functions in any order, one call after the other.
InitReg == InitCommon /\ real = NoLogger /\ mpc = "start" /\ budget = MaxReentries

\* The configurations this thread passes: two the factory accepts, with
\* different formats and levels, and one it rejects.
RegConfigs ==
  { Config("debug", "text", TRUE, FALSE),
    Config("WARNING", "json", FALSE, TRUE),
    Config("info", "text", FALSE, FALSE) }

\* A whole package-level Debug/Info/Warn/Error/Fatal between two lifecycle calls.
CallerLog(level, fields) ==
  /\ exited = 0
  /\ mpc \in Between
  /\ issued < MaxCalls
  /\ issued' = issued + 1
  /\ MainLog(LogCall(level, MsgOf(issued + 1), fields))
  /\ UNCHANGED <<global, now, pc, snap, cur, done, mainVars, handleVars, callVars, extVars, globalMu>>

NextReg ==
  \/ \E level \in ThreadLevels, fields \in ThreadFieldLists : CallerLog(level, fields)
  \/ InitBootstrap
  \/ InitBootstrapLog
  \/ \E c \in RegConfigs : Init_(c)
  \/ InitNew
  \/ InitFail
  \/ InitInstall
  \/ InitLog
  \/ \E c \in RegConfigs, h \in {"nil", "buffer"} : UpgradeCount(c, h)
  \/ UpgradeDebug
  \/ UpgradeNew
  \/ UpgradeFail
  \/ UpgradeReplay
  \/ ReplayEntry
  \/ ReplayEnd
  \/ UpgradeInstall
  \/ UpgradeInfo

SpecReg == InitReg /\ [][NextReg]_vars

\* ------------------------------------------------- a buffer used directly
\* A buffer from NewBuffered() and a real logger to replay it to, used by one
\* thread through the BufferedLogger interface, outside the registry.
Targets ==
  { newTextLogger(LevelDebug, <<"buf">>),
    newJSONLogger(LevelWarn, <<"buf">>) }

InitBuf == InitCommon /\ real \in Targets /\ mpc = "handle" /\ budget = 0

\* buffer.Debug/Info/Warn/Error/Fatal(msg, fields...)
BufLog(level, fields) ==
  /\ exited = 0
  /\ mpc = "handle"
  /\ nops < MaxOps
  /\ \E exit \in {0, 1} :
       /\ Deliver("buffer", LogCall(level, MsgOf(nops + 1), fields), exit)
       /\ exited' = exit
  /\ last' = [op |-> "Log", level |-> level, ret |-> 0]
  /\ nops' = nops + 1
  /\ UNCHANGED <<global, now, threadVars, mainVars, callVars, extVars, globalMu>>

\* buffer.Count()
BufCount ==
  /\ exited = 0
  /\ mpc = "handle"
  /\ nops < MaxOps
  /\ MuLock
  /\ last' = [op |-> "Count", level |-> LevelDebug, ret |-> Count(entries)]
  /\ nops' = nops + 1
  /\ UNCHANGED <<global, bufVars, sinkVars, exited, now, threadVars, mainVars, callVars, extVars, globalMu>>

\* buffer.ReplayTo(target), lines 110-111: take the lock and start the loop.
BufReplayTo ==
  /\ exited = 0
  /\ mpc = "handle"
  /\ Len(replays) < MaxReplays
  /\ MuLock
  /\ mu' = "main"
  /\ idx' = 1
  /\ replays' = Append(replays, [before |-> entries, fresh |-> sinceReplay])
  /\ mpc' = "replaying"
  /\ UNCHANGED <<global, entries, appended, sinceReplay, sinkVars, exited, now, threadVars,
                 cfg, handle, bufferedCount, pending, err, attempts, handleVars, callVars, extVars, globalMu>>

NextBuf ==
  \/ Tick
  \/ \E c \in BufferCalls : BufLog(c.level, c.fields)
  \/ BufCount
  \/ BufReplayTo
  \/ ReplayEntry
  \/ ReplayEnd

SpecBuf == InitBuf /\ [][NextBuf]_vars

\* ------------------------------------------------ the factory on its own
\* New(cfg) called once, in a process where no logger is installed, for every
\* combination of level string, format, console flag and file flag.
FactoryLevels == {"debug", "INFO", "warn", "Warning", "error", "fatal", ""}
FactoryFormats == {"text", "json", "xml", ""}
FactoryConfigs ==
  {Config(l, f, c, o) : l \in FactoryLevels, f \in FactoryFormats,
                        c \in BOOLEAN, o \in BOOLEAN}

InitFactory ==
  /\ global = "nil"
  /\ entries = <<>> /\ mu = "free" /\ idx = 0
  /\ calls = <<>> /\ output = <<>>
  /\ exited = 0
  /\ now = 0
  /\ pc = [t \in Threads |-> "idle"]
  /\ snap = [t \in Threads |-> "nil"]
  /\ cur = [t \in Threads |-> NoCall]
  /\ issued = 0
  /\ cfg \in FactoryConfigs /\ handle = "nil"
  /\ bufferedCount = 0 /\ pending = <<>> /\ err = NoError /\ attempts = 0
  /\ appended = <<>> /\ done = {} /\ replays = <<>> /\ sinceReplay = 0
  /\ last = NoOp /\ nops = 0
  /\ realLogger = NoLogger
  /\ before = [global |-> "nil", real |-> NoLogger]
  /\ arg = NoArg /\ ret = NoArg
  /\ sink = <<>> /\ stderr = <<>> /\ emitted = <<>>
  /\ globalMu = Unlocked
  /\ real = NoLogger /\ mpc = "factory" /\ budget = 0

\* logger, err := New(cfg): the first log call of New, made through the
\* registry.
CallNew ==
  /\ exited = 0
  /\ mpc = "factory"
  /\ pending' = New(cfg).logs
  /\ mpc' = "factory_new"
  /\ UNCHANGED <<global, bufVars, sinkVars, exited, now, threadVars, cfg, handle, bufferedCount,
                 err, attempts, handleVars, callVars, extVars, globalMu>>

\* New(cfg): one of its log calls; after the last one New returns the logger
\* and the error.
NewStep ==
  /\ exited = 0
  /\ mpc = "factory_new"
  /\ pending # <<>>
  /\ MainLog(Head(pending))
  /\ pending' = Tail(pending)
  /\ IF Len(pending) > 1
     THEN UNCHANGED <<mpc, realLogger, err>>
     ELSE /\ mpc' = "built"
          /\ realLogger' = New(cfg).logger
          /\ err' = New(cfg).err
  /\ UNCHANGED <<global, now, threadVars, cfg, handle, bufferedCount, attempts, handleVars,
                 budget, before, extVars, globalMu>>

NextFactory ==
  \/ CallNew
  \/ NewStep

SpecFactory == InitFactory /\ [][NextFactory]_vars

\* ------------------------------------------- a real logger used directly
\* A text or JSON logger of any minimum level, as newTextLogger/newJSONLogger
\* build it, used by one thread through the Logger interface.
AllLoggers ==
  {newTextLogger(l, <<"buf">>) : l \in Levels} \cup {newJSONLogger(l, <<"buf">>) : l \in Levels}

InitLogger == InitCommon /\ real \in AllLoggers /\ mpc = "logger" /\ budget = 0

\* logger.Debug/Info/Warn/Error/Fatal(msg, fields...)
LoggerLog(level, fields) ==
  /\ exited = 0
  /\ mpc = "logger"
  /\ nops < MaxOps
  /\ \E exit \in {0, 1} :
       /\ Deliver("real", LogCall(level, MsgOf(nops + 1), fields), exit)
       /\ exited' = exit
  /\ last' = [op |-> "Log", level |-> level, ret |-> 0]
  /\ nops' = nops + 1
  /\ UNCHANGED <<global, now, threadVars, mainVars, callVars, extVars, globalMu>>

NextLogger ==
  \/ Tick
  \/ \E c \in BufferCalls : LoggerLog(c.level, c.fields)

SpecLogger == InitLogger /\ [][NextLogger]_vars

\* ================================================================ claims
\* The message a line of the output carries.
LineMsg(line) == IF line.format = "text" THEN line.msg ELSE line.obj["msg"]

\* Whether a line of the output carries the replay marker.
LineTagged(line) ==
  IF line.format = "text"
  THEN Len(line.fields) >= 1 /\ line.fields[1] = NewField(bootstrapFieldName, "true")
  ELSE bootstrapFieldName \in DOMAIN line.obj /\ line.obj[bootstrapFieldName] = "true"

\* How often message m occurs in a sequence of records with a msg field.
Occurrences(seq, m) == Cardinality({i \in DOMAIN seq : seq[i].msg = m})
DirectCalls(m) == Cardinality({i \in DOMAIN calls : calls[i].msg = m /\ calls[i].via = "direct"})
LinesOf(m) == Cardinality({i \in DOMAIN output : LineMsg(output[i]) = m})

\* The Debug/Info/Warn/Error calls of the threads that returned and were made
\* once a logger had been installed.
LoggedCalls == {d \in done : d.call.level # LevelFatal /\ d.snap # "nil"}

AllReturned == \A t \in Threads : pc[t] = "idle"

\* C1: the handover is lossless: once a successful UpgradeFromBootstrap has
\* returned and every package-level call has returned, each Debug/Info/Warn/
\* Error call made since InitBootstrap has been passed to the new real logger
\* (replayed or directly) and no entry is left in the bootstrap buffer.
C1_LosslessHandover ==
  (mpc = "done" /\ AllReturned /\ exited = 0) =>
     /\ entries = <<>>
     /\ \A d \in LoggedCalls : Occurrences(calls, d.call.msg) >= 1

\* C2: every returned Debug/Info/Warn/Error call went to exactly one of the
\* bootstrap buffer and the real logger, and no call has more than one line
\* in the output.
C2_ExactlyOneDestination ==
  /\ \A d \in LoggedCalls :
       Occurrences(appended, d.call.msg) + DirectCalls(d.call.msg) = 1
  /\ \A n \in 1 .. issued : LinesOf(MsgOf(n)) <= 1 /\ Occurrences(calls, MsgOf(n)) <= 1

\* C2 witness: during one upgrade one call went to the buffer and was written
\* by the replay, another went to the new logger directly.
C2_Witness ==
  /\ mpc = "done"
  /\ \E d1, d2 \in LoggedCalls :
       /\ d1.snap = "buffer" /\ LinesOf(d1.call.msg) = 1
       /\ d2.snap = "real" /\ DirectCalls(d2.call.msg) = 1

\* ------------------------------------------------------ replay, observed
\* The operations the k-th ReplayTo invoked on its target, in order.
ReplayOps(k) == SelectSeq(calls, LAMBDA c : c.via = "replay" /\ c.rid = k)

\* Position of the first fatal entry of a buffer, 0 if it has none.
FirstFatal(b) ==
  IF \E i \in DOMAIN b : b[i].level = "fatal"
  THEN CHOOSE i \in DOMAIN b : b[i].level = "fatal" /\ \A j \in 1 .. i - 1 : b[j].level # "fatal"
  ELSE 0

\* The k-th ReplayTo is over: it returned, or the process ended inside it.
ReplayOver(k) == k < Len(replays) \/ idx = 0 \/ exited # 0

\* The i-th operation of the k-th replay is the operation of the severity of
\* the i-th buffered entry, with that entry's message.
OpMatches(k, i) ==
  /\ String(ReplayOps(k)[i].level) = replays[k].before[i].level
  /\ ReplayOps(k)[i].msg = replays[k].before[i].msg

\* C3 as stated: when a ReplayTo is over, every buffered entry had exactly one
\* operation on the target, of its severity and with its message, in append order.
C3_EveryEntryReplayed ==
  \A k \in DOMAIN replays :
     ReplayOver(k) =>
        /\ Len(ReplayOps(k)) = Len(replays[k].before)
        /\ \A i \in DOMAIN replays[k].before : OpMatches(k, i)

\* C3 amended: the operations of a replay are, in append order, one operation
\* per buffered entry up to and including the first Fatal entry (all entries
\* when there is none), each of the entry's severity and with its message;
\* when the replay is over none of those entries is missing.
C3_ReplayInOrder ==
  \A k \in DOMAIN replays :
     LET b == replays[k].before
         n == IF FirstFatal(b) = 0 THEN Len(b) ELSE FirstFatal(b)
     IN /\ Len(ReplayOps(k)) <= n
        /\ \A i \in 1 .. Len(ReplayOps(k)) : OpMatches(k, i)
        /\ ReplayOver(k) => Len(ReplayOps(k)) = n

\* C3 witness: a replay of at least three entries, two of different severity,
\* has returned.
C3_Witness ==
  /\ idx = 0 /\ exited = 0
  /\ \E k \in DOMAIN replays :
       /\ Len(replays[k].before) >= 3
       /\ replays[k].before[1].level # replays[k].before[2].level
       /\ Len(ReplayOps(k)) = Len(replays[k].before)

\* C4: a replay of a buffer with a Fatal entry stops at the first one: no
\* operation is invoked for a later entry, the entries before it and the Fatal
\* itself are invoked in order, the Fatal's line is written, and with the
\* Fatal's invocation the process has ended with status 1.
C4_ReplayHaltsAtFatal ==
  \A k \in DOMAIN replays :
     LET b == replays[k].before
         f == FirstFatal(b)
         ops == ReplayOps(k)
     IN f > 0 =>
          /\ Len(ops) <= f
          /\ \A i \in 1 .. Len(ops) : ops[i].msg = b[i].msg
          /\ Len(ops) = f =>
               /\ ops[f].level = LevelFatal
               /\ exited = 1
               /\ output # <<>> /\ LineMsg(output[Len(output)]) = b[f].msg
          /\ ReplayOver(k) => Len(ops) = f

\* C4 witness: the process ended in a replay whose buffer had an entry before
\* and an entry after its first Fatal.
C4_Witness ==
  /\ exited = 1
  /\ \E k \in DOMAIN replays :
       /\ FirstFatal(replays[k].before) = 2
       /\ Len(replays[k].before) = 3
       /\ Len(ReplayOps(k)) = 2

\* A step in which Fatal is called on the buffer handle.
BufferedFatalCalled == nops' = nops + 1 /\ last'.op = "Log" /\ last'.level = LevelFatal

\* C5: Fatal on the buffer appends one entry of severity fatal, so Count()
\* grows by exactly one, and does not end the process.
C5_BufferedFatalOnlyBuffers ==
  [][BufferedFatalCalled =>
       /\ Count(entries') = Count(entries) + 1
       /\ entries'[Len(entries')].level = "fatal"
       /\ SubSeq(entries', 1, Len(entries)) = entries
       /\ exited' = 0]_vars

\* C5 witness: Fatal was just called on the buffer and the process runs.
C5_Witness ==
  /\ last.op = "Log" /\ last.level = LevelFatal
  /\ exited = 0
  /\ entries # <<>> /\ entries[Len(entries)].level = "fatal"

\* C7: after a ReplayTo has returned and nothing was appended since, the
\* buffer is empty, and a further ReplayTo started in that situation invokes
\* nothing on the target.
C7_ReplayIdempotent ==
  /\ (Len(replays) >= 1 /\ idx = 0 /\ sinceReplay = 0) => Count(entries) = 0
  /\ \A k \in DOMAIN replays : (k >= 2 /\ replays[k].fresh = 0) => ReplayOps(k) = <<>>

\* C7 witness: a replay of a non-empty buffer returned and was followed, with
\* no append in between, by a second ReplayTo that returned as well.
C7_Witness ==
  /\ Len(replays) >= 2 /\ idx = 0 /\ mpc = "handle"
  /\ replays[1].before # <<>>
  /\ replays[2].fresh = 0

\* C8: every operation of a replay carries bootstrap=true, then timestamp= the
\* RFC3339 form of the entry's creation time, then the entry's own fields
\* unchanged and in order.
C8_SyntheticFieldsFirst ==
  \A k \in DOMAIN replays : \A i \in 1 .. Len(ReplayOps(k)) :
     LET fs == ReplayOps(k)[i].fields
         e == replays[k].before[i]
     IN /\ Len(fs) = Len(e.fields) + 2
        /\ fs[1] = [Key |-> "bootstrap", Value |-> "true"]
        /\ fs[2] = [Key |-> "timestamp", Value |-> FormatRFC3339(e.timestamp)]
        /\ SubSeq(fs, 3, Len(fs)) = e.fields

\* C8 witness: an entry with two fields of its own, created in the second half
\* of a second, was replayed.
C8_Witness ==
  \E k \in DOMAIN replays : \E i \in 1 .. Len(ReplayOps(k)) :
     /\ Len(replays[k].before[i].fields) = 2
     /\ replays[k].before[i].timestamp % TicksPerSecond # 0
     /\ ReplayOps(k)[i].fields[3] = NewField("user", "alice")

\* ------------------------------------------------------ registry, observed
\* A Fatal entry has been replayed into a real logger.
FatalReplayed == \E i \in DOMAIN calls : calls[i].via = "replay" /\ calls[i].level = LevelFatal

\* C6: a Fatal made through the package-level Fatal while the buffer is
\* current is buffered and does not end the process: the process ends only
\* when that entry is replayed into a real logger.
C6_PackageFatalDeferred ==
  \A d \in done :
     (d.call.level = LevelFatal /\ d.snap = "buffer") =>
        /\ Occurrences(appended, d.call.msg) = 1
        /\ exited # 0 => FatalReplayed

\* C9: the replay into the new logger is made while the buffer is still
\* current; in the calls and in the output of the new logger everything
\* replayed precedes everything that came through the package-level
\* functions (no replayed entry directly follows one that was not); when the upgrade has returned nil the new logger is current.
C9_ReplayBeforeInstall ==
  /\ mpc \in {"up_replay", "up_replaying"} => global = "buffer"
  /\ \A i \in 1 .. Len(calls) - 1 :
        calls[i].via = "direct" => calls[i + 1].via = "direct"
  /\ \A i \in 1 .. Len(output) - 1 :
        ~LineTagged(output[i]) => ~LineTagged(output[i + 1])
  /\ mpc = "done" => (global = "real" /\ err = NoError /\ real = New(cfg).logger)

\* C9 witness: the upgrade returned nil; the new logger was called by the
\* replay and, after it, by a caller thread, and wrote lines of both kinds.
C9_Witness ==
  /\ mpc = "done"
  /\ \E i \in DOMAIN calls : calls[i].via = "replay"
  /\ \E d \in done : d.snap = "real" /\ DirectCalls(d.call.msg) = 1
  /\ \E i, j \in DOMAIN output : LineTagged(output[i]) /\ ~LineTagged(output[j])

\* The error New gives for a configuration it rejects.
ExpectedFailure(c) ==
  IF ToLower(c.Level) \notin {"debug", "info", "warn", "warning", "error"}
  THEN ErrUnknownLogLevel
  ELSE IF ~c.Console /\ ~c.File THEN ErrNoLogOutputs ELSE ErrUnknownLogFormat

Rejected(c) ==
  \/ ToLower(c.Level) \notin {"debug", "info", "warn", "warning", "error"}
  \/ (~c.Console /\ ~c.File)
  \/ c.Format \notin {"text", "json"}

\* C10: while an UpgradeFromBootstrap whose factory fails runs, and after it
\* returned, the buffer is the current logger, no entry has been replayed or
\* removed from the buffer and no real logger exists; the call returns the
\* factory's error.
C10_FailedUpgradeKeepsBuffer ==
  /\ (attempts >= 1 /\ Rejected(cfg)) =>
        /\ mpc \in {"up_debug", "up_new", "up_fail", "ready"}
        /\ global = "buffer"
        /\ calls = <<>> /\ output = <<>>
        /\ entries = appended
        /\ real = NoLogger
        /\ mpc = "ready" => err.sentinel = ExpectedFailure(cfg)
  /\ (attempts >= 1 /\ mpc = "ready") => Rejected(cfg)

\* C10 witness: an upgrade with a rejected configuration has returned; the
\* buffer holds the entries logged before and during it.
C10_Witness ==
  /\ mpc = "ready" /\ attempts >= 1
  /\ err.sentinel = ErrUnknownLogFormat
  /\ Len(entries) >= 5
  /\ \E d \in done : d.snap = "buffer"

\* ------------------------------------------------------ registry states
\* C11: while no logger is installed a package-level call is a silent no-op:
\* the step in which a call whose snapshot of global was nil returns changes
\* neither the registry, the buffer nor any logger's output, and leaves the
\* process running. This holds for Debug, Info, Warn, Error and Fatal alike.
C11_UninitializedNoOp ==
  [][\A t \in Threads :
        (pc[t] = "snap" /\ snap[t] = "nil" /\ global = "nil" /\ pc'[t] = "idle") =>
           UNCHANGED <<global, bufVars, sinkVars, exited>>]_vars

\* The calls of the threads that returned and had found the buffer current.
BufferedCalls == {d \in done : d.snap = "buffer"}

\* C12: InitBootstrap installs the buffer it returns: from its return until
\* an upgrade begins the buffer is the current logger, InitBootstrap's own
\* Debug message is in it, and handle.Count() is one (that message) plus the
\* number of package-level calls that found the buffer current and returned,
\* so each such call has raised the count by exactly 1.
C12_BootstrapHandleCounts ==
  /\ (mpc = "ready" /\ attempts = 0) =>
        /\ global = "buffer"
        /\ \E i \in DOMAIN entries :
              /\ entries[i].msg = "bootstrap logger initialized"
              /\ entries[i].level = String(LevelDebug)
  /\ (mpc \in {"boot_log", "ready"} /\ attempts = 0) =>
        Count(entries) = (IF mpc = "ready" THEN 1 ELSE 0) + Cardinality(BufferedCalls)

\* C12 witness: after InitBootstrap returned two Info calls went through the
\* registry and the handle counts three entries.
C12_Witness ==
  /\ mpc = "ready" /\ attempts = 0 /\ exited = 0
  /\ Cardinality({d \in BufferedCalls : d.call.level = LevelInfo}) = 2
  /\ Count(entries) = 3

\* C13: once a real logger is current (Steady) it stays so: no step of Init,
\* InitBootstrap, UpgradeFromBootstrap or a package-level log call makes the
\* current logger nil or a bootstrap buffer again.
C13_SteadyIsFinal == [][global = "real" => global' = "real"]_vars

\* The positions of the main thread at which a real logger has been installed
\* by the call in progress or by the last call that returned.
AfterSwap == {"init_info", "steady", "up_info", "done"}

\* C14: the swap is atomic for readers. A snapshot a package-level call holds
\* is nil, the buffer or the real logger, as global was when it was taken; it
\* is the buffer only once InitBootstrap has installed one; and the real
\* logger, as the current logger or as a snapshot, is only ever the complete
\* logger New returned for the configuration, obtainable only once the call
\* that built it has swapped it in, which UpgradeFromBootstrap does when its
\* replay into that logger is over.
C14_SwapAtomicForReaders ==
  /\ \A t \in Threads :
        /\ snap[t] \in {"nil", "buffer", "real"}
        /\ snap[t] = "buffer" => mpc # "start"
        /\ snap[t] = "real" => global = "real"
  /\ global = "real" =>
        /\ real = New(cfg).logger
        /\ real.kind \in {"text", "json"}
        /\ mpc \in AfterSwap
        /\ idx = 0 /\ mu = "free"
        /\ \A k \in DOMAIN replays : ReplayOver(k)

\* C14 witness: right after the swap of an upgrade one reader still holds the
\* buffer it found before the swap and another already holds the new logger.
C14_Witness ==
  /\ mpc = "up_info" /\ exited = 0
  /\ \E t1, t2 \in Threads :
       /\ pc[t1] = "snap" /\ snap[t1] = "buffer"
       /\ pc[t2] = "snap" /\ snap[t2] = "real"

\* Whether sequence s is sequence r with zero or more elements appended.
Extends(s, r) == Len(s) >= Len(r) /\ SubSeq(s, 1, Len(r)) = r

\* The step delivers the call thread t has in flight to the logger the thread
\* found current when the call began, and to no other.
DeliveredToSnapshot(t) ==
  CASE snap[t] = "buffer" ->
         /\ appended' = Append(appended, logEntry(now, String(cur[t].level), cur[t].msg,
                                                  cur[t].fields))
         /\ calls' = calls
    [] snap[t] = "real" ->
         /\ calls' = Append(calls, Invocation(cur[t].level, cur[t].msg, cur[t].fields, "direct"))
         /\ appended' = appended
    [] OTHER -> calls' = calls /\ appended' = appended

\* C15: the calls of one thread are delivered in call order, each to the
\* logger that was current when it began. In every step: a call that begins
\* takes the logger current at that moment; a call in flight stays as it is
\* until the step that delivers it to that logger, and only then can the
\* thread begin its next call; and what has been delivered to the buffer or
\* to the real logger is never reordered or removed, only extended.
C15_ThreadCallOrder ==
  [][/\ \A t \in Threads :
          /\ (pc[t] = "idle" /\ pc'[t] = "snap") =>
                /\ snap'[t] = global
                /\ cur'[t].msg = MsgOf(issued + 1) /\ issued' = issued + 1
          /\ pc[t] = "snap" =>
                \/ pc'[t] = "snap" /\ cur'[t] = cur[t] /\ snap'[t] = snap[t]
                \/ pc'[t] = "idle" /\ DeliveredToSnapshot(t)
     /\ Extends(appended', appended)
     /\ Extends(calls', calls)]_vars

\* C15 witness: across a swap, call m1 was delivered to the buffer its thread
\* had found current although the real logger was current by then, and the
\* later call m2 went to the real logger.
C15_Witness ==
  /\ mpc = "done" /\ exited = 0
  /\ \E d1, d2 \in done :
       /\ d1.snap = "buffer" /\ d1.call.msg = MsgOf(1)
       /\ \E i \in DOMAIN entries : entries[i].msg = MsgOf(1)
       /\ d2.snap = "real" /\ d2.call.msg = MsgOf(2)
       /\ DirectCalls(MsgOf(2)) = 1

\* -------------------------------------------------- real loggers, observed
\* The calls made on the logger that passed its level filter.
WrittenCalls(S) == {i \in DOMAIN calls : calls[i].level >= S}

\* The level a line of the output shows.
LineLevel(line) == IF line.format = "text" THEN line.level ELSE line.obj["level"]

C17_FatalWritesThenExits ==
  /\ exited \in {0, 1}
  /\ exited = 1 <=> \E i \in DOMAIN calls : calls[i].level = LevelFatal
  /\ \A i \in DOMAIN calls :
        calls[i].level = LevelFatal =>
           /\ i = Len(calls)
           /\ output # <<>>
           /\ LineMsg(output[Len(output)]) = calls[i].msg
           /\ LineLevel(output[Len(output)]) \in {"fatal", "FATAL"}
           /\ LinesOf(calls[i].msg) = 1

\* C17 witness: a JSON logger of minimum level Fatal, which writes nothing
\* else, wrote a Fatal call and the process ended with status 1.
C17_Witness ==
  /\ real = newJSONLogger(LevelFatal, <<"buf">>)
  /\ Len(calls) = 2 /\ calls[1].level = LevelError /\ calls[2].level = LevelFatal
  /\ Len(output) = 1
  /\ exited = 1

\* Whether a line of the output carries the fields fs: a text line shows them
\* in order, a JSON line has each key with its value.
LineHasFields(line, fs) ==
  IF line.format = "text"
  THEN line.fields = fs
  ELSE \A i \in DOMAIN fs : fs[i].Key \in DOMAIN line.obj /\ line.obj[fs[i].Key] = fs[i].Value

RefNew(c) ==
  IF parseLevel(c.Level).err # NoError
  THEN [kind |-> "none", level |-> LevelDebug, sentinel |-> ErrUnknownLogLevel]
  ELSE IF ~c.Console /\ ~c.File
  THEN [kind |-> "none", level |-> LevelDebug, sentinel |-> ErrNoLogOutputs]
  ELSE IF c.Format \notin {"text", "json"}
  THEN [kind |-> "none", level |-> LevelDebug, sentinel |-> ErrUnknownLogFormat]
  ELSE [kind |-> c.Format, level |-> parseLevel(c.Level).level, sentinel |-> "nil"]

\* C19: New(config) is the reference decision: the level is checked first,
\* then the outputs, then the format; a failure returns the matching error
\* and no logger, a success returns no error and a text or JSON logger of the
\* parsed minimum level.
C19_FactoryDecision ==
  mpc = "built" =>
     /\ [kind |-> realLogger.kind, level |-> realLogger.level, sentinel |-> err.sentinel]
           = RefNew(cfg)
     /\ err # NoError <=> realLogger = NoLogger

\* C19 witness: New has returned for a configuration that is wrong in all
\* three respects, and the error is the one for the level.
C19_Witness ==
  /\ mpc = "built"
  /\ cfg = Config("fatal", "xml", FALSE, FALSE)
  /\ err.sentinel = ErrUnknownLogLevel
  /\ realLogger = NoLogger

\* ---------------------------------------------------------- Init, observed
\* C20: Init(config) installs the logger the factory built if and only if
\* the factory succeeds. Until its swap Init leaves the current logger as it
\* was when the call began; when the factory fails Init returns the
\* factory's error with the current logger still that one; when the factory
\* succeeds Init returns nil with the factory's logger current.
C20_InitInstallsIffFactorySucceeds ==
  /\ mpc \in {"init_new", "init_fail", "init_install", "start_failed"} =>
        global = before.global /\ real = before.real
  /\ mpc = "start_failed" =>
        /\ New(cfg).err # NoError
        /\ err = New(cfg).err
  /\ mpc \in {"init_info", "steady"} =>
        /\ New(cfg).err = NoError
        /\ global = "real" /\ real = New(cfg).logger
  /\ mpc = "steady" => err = NoError

\* C20 witness: with a JSON logger installed by an earlier Init, an Init with
\* console and file output both disabled has returned ErrNoLogOutputs and the
\* JSON logger is still current.
C20_Witness ==
  /\ mpc = "start_failed" /\ exited = 0
  /\ cfg = Config("info", "text", FALSE, FALSE)
  /\ err = Errorf(ErrNoLogOutputs, "")
  /\ global = "real" /\ real.kind = "json"
  /\ before.global = "real"

\* ------------------------------------------------ functions on their own
\* One call of a function of the program, on an argument drawn from its
\* domain.
ParseLevelArgs == {[fn |-> "parseLevel", runes |-> w] : w \in KnownStrings}

InitUnitWith(args) ==
  /\ global = "nil"
  /\ entries = <<>> /\ mu = "free" /\ idx = 0
  /\ calls = <<>> /\ output = <<>>
  /\ exited = 0
  /\ now = 0
  /\ pc = [t \in Threads |-> "idle"]
  /\ snap = [t \in Threads |-> "nil"]
  /\ cur = [t \in Threads |-> NoCall]
  /\ issued = 0
  /\ cfg = Config("", "", FALSE, FALSE) /\ handle = "nil"
  /\ bufferedCount = 0 /\ pending = <<>> /\ err = NoError /\ attempts = 0
  /\ appended = <<>> /\ done = {} /\ replays = <<>> /\ sinceReplay = 0
  /\ last = NoOp /\ nops = 0
  /\ realLogger = NoLogger
  /\ before = [global |-> "nil", real |-> NoLogger]
  /\ arg \in args /\ ret = NoArg
  /\ sink = <<>> /\ stderr = <<>> /\ emitted = <<>>
  /\ globalMu = Unlocked
  /\ real = NoLogger /\ mpc = "call" /\ budget = 0

\* The call returns: ret holds what the function returned.
Return(value) ==
  /\ ret' = value
  /\ mpc' = "returned"
  /\ UNCHANGED <<global, bufVars, sinkVars, exited, now, threadVars, cfg, handle, bufferedCount,
                 pending, err, attempts, handleVars, callVars, arg, sink, stderr, emitted,
                 globalMu>>

CallParseLevel ==
  /\ mpc = "call"
  /\ arg.fn = "parseLevel"
  /\ Return(parseLevel(Join(arg.runes)))

\* w spells the name n in some letter case.
Spells(w, n) == Len(w) = Len(n) /\ \A i \in DOMAIN w : w[i] \in CaseForms(n[i])

Parsed(level) == [level |-> level, err |-> NoError]

\* C21: parseLevel returns Debug, Info, Warn or Error for the names debug,
\* info, warn (and its alias warning) and error spelled in any letter case,
\* and fails with ErrUnknownLogLevel for every other string, the empty one
\* included.
C21_ParseLevelTotal ==
  (mpc = "returned" /\ arg.fn = "parseLevel") =>
    LET w == arg.runes IN
    /\ Spells(w, DebugRunes) => ret = Parsed(LevelDebug)
    /\ Spells(w, InfoRunes) => ret = Parsed(LevelInfo)
    /\ (Spells(w, WarnRunes) \/ Spells(w, WarningRunes)) => ret = Parsed(LevelWarn)
    /\ Spells(w, ErrorRunes) => ret = Parsed(LevelError)
    /\ ~(\E n \in {DebugRunes, InfoRunes, WarnRunes, WarningRunes, ErrorRunes} : Spells(w, n))
         => ret.err.sentinel = ErrUnknownLogLevel

\* The alias in mixed case was parsed as Warn.
C21_Witness ==
  /\ mpc = "returned" /\ arg.fn = "parseLevel"
  /\ arg.runes = <<"W", "a", "R", "N", "i", "n", "G">>
  /\ ret = Parsed(LevelWarn)

\* LogLevel is an int: the five levels and values outside them.
LevelValues == (LevelDebug - 2) .. (LevelFatal + 3)
StringArgs == {[fn |-> "String", level |-> l] : l \in LevelValues}

\* l.String() and l.UpperString() of a LogLevel value l.
CallString ==
  /\ mpc = "call"
  /\ arg.fn = "String"
  /\ Return([string |-> String(arg.level), upper |-> UpperString(arg.level)])

\* The renderings the levels have, written out.
Rendering(l) ==
  CASE l = 0 -> [string |-> "debug", upper |-> "DEBUG"]
    [] l = 1 -> [string |-> "info", upper |-> "INFO"]
    [] l = 2 -> [string |-> "warn", upper |-> "WARN"]
    [] l = 3 -> [string |-> "error", upper |-> "ERROR"]
    [] l = 4 -> [string |-> "fatal", upper |-> "FATAL"]
    [] OTHER -> [string |-> "unknown", upper |-> "UNKNOWN"]

\* C26: String() returns debug/info/warn/error/fatal for the five levels and
\* "unknown" for every other numeric value, and UpperString() is the upper
\* case of String(); both return for every value.
C26_RenderingTotal ==
  (mpc = "returned" /\ arg.fn = "String") => ret = Rendering(arg.level)

\* A value outside the five levels was rendered.
C26_Witness ==
  /\ mpc = "returned" /\ arg.fn = "String"
  /\ arg.level = LevelFatal + 1
  /\ ret = [string |-> "unknown", upper |-> "UNKNOWN"]

\* ------------------------------------------------ configuration validation
ErrEmptyAppName == "app name cannot be empty"
ErrMissingConfigDir == "when storage.useXDG is false, configDir must be explicitly set"
ErrMissingDataDir == "when storage.useXDG is false, dataDir must be explicitly set"
ErrInvalidLogLevel == "invalid log level"
ErrInvalidLogFormat == "invalid log format"
ErrInvalidMaxSizeMB == "log file maxSizeMB must be positive"
ErrNegativeMaxBackups == "log file maxBackups cannot be negative"
ErrNegativeMaxAgeDays == "log file maxAgeDays cannot be negative"
ErrEmptyLogFilename == "log file filename cannot be empty"
ErrNoLogOutputEnabled == "at least one log output (console or file) must be enabled"

\* validLogLevels with a plausible slip: the fifth level name is listed too.
validLogLevelsWithFatal == <<"debug", "info", "warn", "error", "fatal">>

validLogLevels == <<"debug", "info", "warn", "error">>
validLogFormats == <<"text", "json">>

Contains(l, x) == \E i \in DOMAIN l : l[i] = x

\* fmt's %v of a []string of any length.
RECURSIVE SpaceSeparated(_)
SpaceSeparated(l) ==
  IF l = <<>> THEN ""
  ELSE IF Len(l) = 1 THEN l[1]
  ELSE l[1] \o " " \o SpaceSeparated(Tail(l))
SprintStrings(l) == "[" \o SpaceSeparated(l) \o "]"

\* app.Config, as far as validateConfig reads it.
FileLogConfig(enabled, filename, maxSizeMB, maxBackups, maxAgeDays) ==
  [Enabled |-> enabled, Filename |-> filename, MaxSizeMB |-> maxSizeMB,
   MaxBackups |-> maxBackups, MaxAgeDays |-> maxAgeDays]
AppConfig(name, level, format, console, file, useXDG, configDir, dataDir) ==
  [App |-> [Name |-> name],
   Log |-> [Level |-> level, Format |-> format, Console |-> [Enabled |-> console], File |-> file],
   Storage |-> [UseXDG |-> useXDG, ConfigDir |-> configDir, DataDir |-> dataDir]]

validateAppConfig(c) == IF c.Name = "" THEN Errorf(ErrEmptyAppName, "") ELSE NoError

validateStorageConfig(c) ==
  IF ~c.UseXDG /\ c.ConfigDir = "" THEN Errorf(ErrMissingConfigDir, "")
  ELSE IF ~c.UseXDG /\ c.DataDir = "" THEN Errorf(ErrMissingDataDir, "")
  ELSE NoError

\* validateFileLogConfig with a plausible slip: the checks are made in the
\* order the comment of validateConfig lists them, the filename first.
validateFileLogConfigFilenameFirst(c) ==
  IF c.Filename = "" THEN Errorf(ErrEmptyLogFilename, "")
  ELSE IF c.MaxSizeMB <= 0 THEN Errorf(ErrInvalidMaxSizeMB, "got " \o ToString(c.MaxSizeMB))
  ELSE IF c.MaxBackups < 0 THEN Errorf(ErrNegativeMaxBackups, "got " \o ToString(c.MaxBackups))
  ELSE IF c.MaxAgeDays < 0 THEN Errorf(ErrNegativeMaxAgeDays, "got " \o ToString(c.MaxAgeDays))
  ELSE NoError

validateFileLogConfig(c) ==
  IF c.MaxSizeMB <= 0 THEN Errorf(ErrInvalidMaxSizeMB, "got " \o ToString(c.MaxSizeMB))
  ELSE IF c.MaxBackups < 0 THEN Errorf(ErrNegativeMaxBackups, "got " \o ToString(c.MaxBackups))
  ELSE IF c.MaxAgeDays < 0 THEN Errorf(ErrNegativeMaxAgeDays, "got " \o ToString(c.MaxAgeDays))
  ELSE IF c.Filename = "" THEN Errorf(ErrEmptyLogFilename, "")
  ELSE NoError

validateLogConfig(c) ==
  IF ~Contains(validLogLevels, c.Level)
  THEN Errorf(ErrInvalidLogLevel,
              "'" \o c.Level \o "', must be one of: " \o SprintStrings(validLogLevels))
  ELSE IF ~Contains(validLogFormats, c.Format)
  THEN Errorf(ErrInvalidLogFormat,
              "'" \o c.Format \o "', must be one of: " \o SprintStrings(validLogFormats))
  ELSE IF c.File.Enabled /\ validateFileLogConfig(c.File) # NoError
  THEN validateFileLogConfig(c.File)
  ELSE IF ~c.Console.Enabled /\ ~c.File.Enabled THEN Errorf(ErrNoLogOutputEnabled, "")
  ELSE NoError

validateConfig(c) ==
  IF validateAppConfig(c.App) # NoError THEN validateAppConfig(c.App)
  ELSE IF validateLogConfig(c.Log) # NoError THEN validateLogConfig(c.Log)
  ELSE validateStorageConfig(c.Storage)

\* The configurations validateConfig is called on: every field it reads takes
\* a valid and an invalid value, the three numbers a negative one, zero and a
\* positive one.
FileLogConfigs ==
  {FileLogConfig(e, f, s, b, a) :
     e \in BOOLEAN, f \in {"app.log", ""}, s \in {-1, 0, 100}, b \in {-1, 0, 5},
     a \in {-1, 0, 30}}
AppConfigs ==
  {AppConfig(n, l, f, c, file, x, cd, dd) :
     n \in {"lazispace", ""}, l \in {"info", "verbose"}, f \in {"text", "xml"},
     c \in BOOLEAN, file \in FileLogConfigs, x \in BOOLEAN, cd \in {"/c", ""}, dd \in {"/d", ""}}
ValidateArgs == {[fn |-> "validateConfig", cfg |-> c] : c \in AppConfigs}

CallValidateConfig ==
  /\ mpc = "call"
  /\ arg.fn = "validateConfig"
  /\ Return(validateConfig(arg.cfg))

InitUnit ==
  \/ InitUnitWith(ParseLevelArgs)
  \/ InitUnitWith(StringArgs)
  \/ InitUnitWith(ValidateArgs)

NextUnit ==
  \/ CallParseLevel
  \/ CallString
  \/ CallValidateConfig

SpecUnit == InitUnit /\ [][NextUnit]_vars

FileErrors ==
  {ErrInvalidMaxSizeMB, ErrNegativeMaxBackups, ErrNegativeMaxAgeDays, ErrEmptyLogFilename}

\* The checks validateConfig makes before the file settings pass.
ReachesFileChecks(c) ==
  /\ c.App.Name # ""
  /\ c.Log.Level \in {"debug", "info", "warn", "error"}
  /\ c.Log.Format \in {"text", "json"}

errMsgLogEntryMarshalFailed == "logger: failed to marshal log entry\n"
errMsgLogDataWriteFailed == "logger: failed to write log data\n"
errMsgLogNewlineWriteFailed == "logger: failed to write newline\n"
errMsgLogPrefixWriteFailed == "logger: failed to write text log prefix\n"
errMsgLogSepWriteFailed == "logger: failed to write text log separator\n"
errMsgLogFieldWriteFailed == "logger: failed to write text log field\n"

textFieldSeparator == " |"
jsonFieldTime == "time"
jsonFieldLevel == "level"
jsonFieldMsg == "msg"
jsonFieldError == "error"
jsonErrMarshalFailed == "failed to marshal log entry"

\* One Write the call attempts: what it is, its bytes, and the message the
\* call reports to os.Stderr when the Write fails.
WriteOf(kind, text, onError) == [kind |-> kind, text |-> text, onError |-> onError]

\* fmt.Fprintf(l.output, textLogPrefixFormat, ...) and
\* fmt.Fprintf(l.output, textFieldFormat, f.Key, f.Value)
textLogPrefix(timestamp, level, msg) == <<"[", timestamp, "] ", level, ": ", msg>>
textField(f) == <<" ", f.Key, "=", f.Value>>

\* textWrites with a plausible slip: the separator is not written.
textWritesNoSeparator(level, msg, fields, t) ==
  <<WriteOf("prefix", textLogPrefix(FormatTextTimestamp(t), level, msg),
            errMsgLogPrefixWriteFailed)>>
    \o [i \in 1 .. Len(fields) |-> WriteOf("field", textField(fields[i]), errMsgLogFieldWriteFailed)]
    \o <<WriteOf("newline", <<"\n">>, errMsgLogNewlineWriteFailed)>>

\* textLogger.log: the Writes of one call, in order.
textWrites(level, msg, fields, t) ==
  <<WriteOf("prefix", textLogPrefix(FormatTextTimestamp(t), level, msg),
            errMsgLogPrefixWriteFailed)>>
    \o (IF Len(fields) > 0
        THEN <<WriteOf("separator", <<textFieldSeparator>>, errMsgLogSepWriteFailed)>>
               \o [i \in 1 .. Len(fields) |->
                     WriteOf("field", textField(fields[i]), errMsgLogFieldWriteFailed)]
        ELSE <<>>)
    \o <<WriteOf("newline", <<"\n">>, errMsgLogNewlineWriteFailed)>>

\* The rendered values json.Marshal returns an error for: a channel, a NaN.
UnsupportedValues == {"<chan>", "<NaN>"}

\* The keys of a map in the order json.Marshal writes them; the model takes
\* one fixed order of a set of keys.
RECURSIVE KeysInOrder(_)
KeysInOrder(S) ==
  IF S = {} THEN <<>>
  ELSE LET k == CHOOSE x \in S : TRUE IN <<k>> \o KeysInOrder(S \ {k})

RECURSIVE Members(_, _)
Members(entry, keys) ==
  IF keys = <<>> THEN <<>>
  ELSE <<"\"", Head(keys), "\"", ":", "\"", entry[Head(keys)], "\"">>
         \o (IF Len(keys) > 1 THEN <<",">> ELSE <<>>)
         \o Members(entry, Tail(keys))

\* json.Marshal(entry): the error, or the text of the object.
Marshal(entry) ==
  IF \E k \in DOMAIN entry : entry[k] \in UnsupportedValues
  THEN [err |-> "unsupported value", data |-> <<>>]
  ELSE [err |-> "nil", data |-> <<"{">> \o Members(entry, KeysInOrder(DOMAIN entry)) \o <<"}">>]

\* json.Unmarshal of the text of an object into a map: the members are read
\* from left to right, a key met again replaces the value read before.
RECURSIVE Unmarshal(_, _)
Unmarshal(data, m) ==
  IF Len(data) < 8 THEN m
  ELSE LET k == data[3]
           v == data[7]
       IN Unmarshal(SubSeq(data, 9, Len(data)),
                    [x \in DOMAIN m \cup {k} |-> IF x = k THEN v ELSE m[x]])

\* fmt.Sprintf(`{"%s":"%s"}`+"\n", jsonFieldError, jsonErrMarshalFailed)
fallbackMsg == <<"{\"", jsonFieldError, "\":\"", jsonErrMarshalFailed, "\"}", "\n">>

\* jsonWrites with a plausible slip: when the entry cannot be marshalled
\* nothing is written.
jsonWritesNoFallback(level, msg, fields, t) ==
  LET m == Marshal(jsonLog(level, msg, fields, t).obj) IN
  IF m.err # "nil" THEN <<>>
  ELSE <<WriteOf("data", m.data, errMsgLogDataWriteFailed),
         WriteOf("newline", <<"\n">>, errMsgLogNewlineWriteFailed)>>

\* jsonLogger.log: the Writes of one call, in order.
jsonWrites(level, msg, fields, t) ==
  LET m == Marshal(jsonLog(level, msg, fields, t).obj) IN
  IF m.err # "nil"
  THEN <<WriteOf("fallback", fallbackMsg, errMsgLogEntryMarshalFailed)>>
  ELSE <<WriteOf("data", m.data, errMsgLogDataWriteFailed),
         WriteOf("newline", <<"\n">>, errMsgLogNewlineWriteFailed)>>

\* What reaches the output: the bytes of a Write that succeeded, or the
\* leading part a failed Write left behind.
Written(w) == [kind |-> w.kind, text |-> w.text, whole |-> TRUE]
Torn(w) == [kind |-> w.kind, text |-> SubSeq(w.text, 1, Len(w.text) - 1), whole |-> FALSE]
WrittenAll(ws) == [i \in DOMAIN ws |-> Written(ws[i])]

\* WriteUntilFailure with a plausible slip: the call goes on with the next
\* Write after a failed one.
WriteOnAfterFailure(ws, failAt, torn) ==
  IF failAt = 0 \/ failAt > Len(ws) THEN [written |-> WrittenAll(ws), reports |-> <<>>]
  ELSE [written |-> WrittenAll(SubSeq(ws, 1, failAt - 1))
                      \o (IF torn THEN <<Torn(ws[failAt])>> ELSE <<>>)
                      \o WrittenAll(SubSeq(ws, failAt + 1, Len(ws))),
        reports |-> <<ws[failAt].onError>>]

\* The Writes ws made on an output whose failAt-th Write fails (0: none
\* fails): every `if err != nil` of the two log functions reports to
\* os.Stderr and returns. torn: the failed Write wrote a part of its bytes.
WriteUntilFailure(ws, failAt, torn) ==
  IF failAt = 0 \/ failAt > Len(ws) THEN [written |-> WrittenAll(ws), reports |-> <<>>]
  ELSE [written |-> WrittenAll(SubSeq(ws, 1, failAt - 1))
                      \o (IF torn THEN <<Torn(ws[failAt])>> ELSE <<>>),
        reports |-> <<ws[failAt].onError>>]

\* The Writes a logger operation attempts when none fails.
LoggerWrites(lg, level, msg, fields, t) ==
  IF ~Enabled(lg, level) THEN <<>>
  ELSE IF lg.kind = "text" THEN textWrites(UpperString(level), msg, fields, t)
  ELSE jsonWrites(String(level), msg, fields, t)

\* One operation of a real logger on an output that may fail: what reaches
\* the output, what is reported to os.Stderr, the exit status.
LoggerEmit(lg, level, msg, fields, t, failAt, torn) ==
  LET r == WriteUntilFailure(LoggerWrites(lg, level, msg, fields, t), failAt, torn) IN
  [written |-> r.written, reports |-> r.reports,
   exit |-> IF level = LevelFatal THEN osExit(1) ELSE 0]

\* ------------------------------------- a real logger on a failing output
\* A text and a JSON logger of minimum level Info, each on an output whose
\* Writes may fail.
EmitLoggers == {newTextLogger(LevelInfo, <<"w">>), newJSONLogger(LevelInfo, <<"w">>)}

\* The calls made on them: without fields, with one field, with two fields
\* of the same key, with a value json.Marshal rejects, with a field under a
\* key the JSON entry itself uses (msg; time and level); a call below the
\* minimum level and a Fatal.
EmitCalls ==
  { [level |-> LevelDebug, fields |-> <<NewField("user", "alice")>>],
    [level |-> LevelInfo, fields |-> <<>>],
    [level |-> LevelInfo, fields |-> <<NewField("user", "alice")>>],
    [level |-> LevelWarn, fields |-> <<NewField("k", "1"), NewField("k", "2")>>],
    [level |-> LevelError, fields |-> <<NewField("user", "alice"), NewField("ch", "<chan>")>>],
    [level |-> LevelInfo, fields |-> <<NewField("msg", "other")>>],
    [level |-> LevelWarn, fields |-> <<NewField("time", "noon"), NewField("level", "loud")>>],
    [level |-> LevelFatal, fields |-> <<NewField("user", "alice")>>] }

InitEmit ==
  /\ global = "nil"
  /\ entries = <<>> /\ mu = "free" /\ idx = 0
  /\ calls = <<>> /\ output = <<>>
  /\ exited = 0
  /\ now = 0
  /\ pc = [t \in Threads |-> "idle"]
  /\ snap = [t \in Threads |-> "nil"]
  /\ cur = [t \in Threads |-> NoCall]
  /\ issued = 0
  /\ cfg = Config("", "", FALSE, FALSE) /\ handle = "nil"
  /\ bufferedCount = 0 /\ pending = <<>> /\ err = NoError /\ attempts = 0
  /\ appended = <<>> /\ done = {} /\ replays = <<>> /\ sinceReplay = 0
  /\ last = NoOp /\ nops = 0
  /\ realLogger = NoLogger
  /\ before = [global |-> "nil", real |-> NoLogger]
  /\ arg = NoArg /\ ret = NoArg
  /\ sink = <<>> /\ stderr = <<>> /\ emitted = <<>>
  /\ globalMu = Unlocked
  /\ real \in EmitLoggers /\ mpc = "emit" /\ budget = 0

\* logger.Debug/Info/Warn/Error/Fatal(msg, fields...) on an output whose
\* failAt-th Write of this call fails.
EmitLog(c, failAt, torn) ==
  /\ exited = 0
  /\ mpc = "emit"
  /\ Len(emitted) < MaxEmits
  /\ failAt <= Len(LoggerWrites(real, c.level, MsgOf(Len(emitted) + 1), c.fields, now))
  /\ torn => failAt > 0
  /\ LET msg == MsgOf(Len(emitted) + 1)
         r == LoggerEmit(real, c.level, msg, c.fields, now, failAt, torn)
     IN
     /\ sink' = sink \o r.written
     /\ stderr' = stderr \o r.reports
     /\ exited' = r.exit
     /\ emitted' = Append(emitted,
                     [call |-> LogCall(c.level, msg, c.fields), failAt |-> failAt,
                      torn |-> torn, written |-> r.written, reports |-> r.reports,
                      first |-> Len(sink) + 1, returned |-> r.exit = 0])
  /\ UNCHANGED <<global, bufVars, sinkVars, now, threadVars, mainVars, handleVars, callVars,
                 arg, ret, globalMu>>

\* The Writes one call can attempt: prefix, separator, two fields, newline.
MaxWrites == 5

NextEmit ==
  \E c \in EmitCalls, failAt \in 0 .. MaxWrites, torn \in BOOLEAN : EmitLog(c, failAt, torn)

SpecEmit == InitEmit /\ [][NextEmit]_vars

\* The messages the two log functions report to os.Stderr.
FallbackReports ==
  {errMsgLogEntryMarshalFailed, errMsgLogDataWriteFailed, errMsgLogNewlineWriteFailed,
   errMsgLogPrefixWriteFailed, errMsgLogSepWriteFailed, errMsgLogFieldWriteFailed}

\* The calls made so far that wrote: at or above the minimum level.
Emitting == {i \in DOMAIN emitted : Enabled(real, emitted[i].call.level)}

\* What the i-th call left on the output is where the history says it is.
OnSink(i) ==
  SubSeq(sink, emitted[i].first, emitted[i].first + Len(emitted[i].written) - 1)

\* The kinds of the Writes a text call with n fields makes when none fails.
TextKinds(n) ==
  <<"prefix">> \o (IF n > 0 THEN <<"separator">> \o [i \in 1 .. n |-> "field"] ELSE <<>>)
    \o <<"newline">>

\* C22: in the text logger, when the Write of one segment of a call fails,
\* no later segment of the call reaches the output, the failure is reported
\* once to os.Stderr and not to the output, and the call returns (a Fatal
\* goes on to its exit).
C22_TextWriteFailureAborts ==
  real.kind = "text" =>
    \A i \in Emitting :
      LET e == emitted[i]
          kinds == TextKinds(Len(e.call.fields))
          w == OnSink(i)
      IN
      /\ w = e.written
      /\ e.failAt > 0 =>
           /\ Len(w) = (e.failAt - 1) + (IF e.torn THEN 1 ELSE 0)
           /\ \A j \in DOMAIN w : w[j].kind = kinds[j] /\ (w[j].whole <=> j < e.failAt)
           /\ Len(e.reports) = 1 /\ e.reports[1] \in FallbackReports
           /\ \A j \in DOMAIN w : \A x \in DOMAIN w[j].text : w[j].text[x] \notin FallbackReports
           /\ e.call.level # LevelFatal => e.returned
      /\ e.failAt = 0 => e.reports = <<>>
      /\ Len(stderr) = Cardinality({k \in DOMAIN emitted : emitted[k].failAt > 0})

\* The Write of the first field of a call with two fields failed after the
\* prefix and the separator were written.
C22_Witness ==
  /\ real.kind = "text"
  /\ \E i \in Emitting :
       /\ Len(emitted[i].call.fields) = 2
       /\ emitted[i].failAt = 3 /\ ~emitted[i].torn
       /\ Len(OnSink(i)) = 2
       /\ emitted[i].reports = <<errMsgLogFieldWriteFailed>>
       /\ emitted[i].returned

\* The calls of a JSON logger whose entry json.Marshal rejects.
Unmarshalable ==
  {i \in Emitting : \E j \in DOMAIN emitted[i].call.fields :
                      emitted[i].call.fields[j].Value \in UnsupportedValues}

LinesEmitted ==
  {i \in Emitting : /\ emitted[i].failAt = 0
                    /\ Len(emitted[i].written) = 2
                    /\ emitted[i].written[1].kind = "data"}

Decoded(i) == Unmarshal(OnSink(i)[1].text, <<>>)

\* The i-th field of the list is the last one with its key.
LastOfKey(fields, i) == \A j \in DOMAIN fields : j > i => fields[j].Key # fields[i].Key

C25_TextLineShape ==
  real.kind = "text" =>
    \A i \in Emitting :
      emitted[i].failAt = 0 =>
        LET fields == emitted[i].call.fields
            n == Len(fields)
            w == OnSink(i)
        IN
        /\ Len(w) = (IF n > 0 THEN n + 3 ELSE 2)
        /\ \A j \in DOMAIN w : w[j].whole
        /\ w[1].text = <<"[", "0.000", "] ", UpperString(emitted[i].call.level), ": ",
                         emitted[i].call.msg>>
        /\ n > 0 => w[2].text = <<" |">>
        /\ Cardinality({j \in DOMAIN w : w[j].text = <<" |">>}) = (IF n > 0 THEN 1 ELSE 0)
        /\ \A j \in 1 .. n : w[j + 2].text = <<" ", fields[j].Key, "=", fields[j].Value>>
        /\ w[Len(w)].text = <<"\n">>
        /\ Cardinality({j \in DOMAIN w : w[j].text = <<"\n">>}) = 1

\* Info("m1", user=alice) was written as prefix, separator, field, newline;
\* so was a call with two fields of one key.
C25_Witness ==
  /\ real.kind = "text"
  /\ Len(emitted) = 2
  /\ emitted[1].failAt = 0 /\ emitted[2].failAt = 0
  /\ emitted[1].call = LogCall(LevelInfo, "m1", <<NewField("user", "alice")>>)
  /\ OnSink(1)[3].text = <<" ", "user", "=", "alice">>
  /\ emitted[2].call.fields = <<NewField("k", "1"), NewField("k", "2")>>
  /\ Len(OnSink(2)) = 5

\* ----------------------------------------------------- the registry lock
\* The registry with the steps of globalMu told apart: a caller thread takes
\* the read lock in one step and reads global and releases the lock in the
\* next; the main thread takes the write lock in one step and assigns global
\* and releases the lock in the next.

\* ReadersAfterSnapshot with a plausible slip: the read lock is released by
\* a defer, when the package-level function returns.
ReadersDeferred(t) == globalMu.r

\* globalMu.RUnlock() of thread t: the readers left.
ReadersAfterSnapshot(t) == globalMu.r \ {t}

\* Debug/Info/Warn/Error/Fatal of the package: globalMu.RLock().
RLock(t, level, fields) ==
  /\ exited = 0
  /\ pc[t] = "idle"
  /\ CanRead
  /\ issued < MaxCalls
  /\ issued' = issued + 1
  /\ cur' = [cur EXCEPT ![t] = LogCall(level, MsgOf(issued + 1), fields)]
  /\ pc' = [pc EXCEPT ![t] = "rlocked"]
  /\ globalMu' = [globalMu EXCEPT !.r = globalMu.r \cup {t}]
  /\ UNCHANGED <<global, bufVars, sinkVars, exited, now, snap, done, mainVars, handleVars,
                 callVars, extVars>>

\* logger := global; globalMu.RUnlock()
RUnlock(t) ==
  /\ exited = 0
  /\ pc[t] = "rlocked"
  /\ snap' = [snap EXCEPT ![t] = global]
  /\ pc' = [pc EXCEPT ![t] = "snap"]
  /\ globalMu' = [globalMu EXCEPT !.r = ReadersAfterSnapshot(t)]
  /\ UNCHANGED <<global, bufVars, sinkVars, exited, now, cur, issued, done, mainVars,
                 handleVars, callVars, extVars>>

\* The positions of the main thread whose next statement is globalMu.Lock():
\* in InitBootstrap (after NewBuffered), in Init and in UpgradeFromBootstrap.
BeforeLock == {"start", "init_install", "up_install"}
LockHeldAt == {"boot_install", "init_install", "up_install"}

\* globalMu.Lock() of the main thread.
Lock ==
  /\ exited = 0
  /\ mpc \in BeforeLock
  /\ globalMu = Unlocked
  /\ globalMu' = [globalMu EXCEPT !.w = "main"]
  /\ mpc' = IF mpc = "start" THEN "boot_install" ELSE mpc
  /\ UNCHANGED <<global, bufVars, sinkVars, exited, now, threadVars, cfg, handle, bufferedCount,
                 pending, err, attempts, handleVars, callVars, extVars>>

\* The configurations of the main thread: one the factory accepts, one it
\* rejects.
LockConfigs == {Config("debug", "text", TRUE, FALSE), Config("info", "text", FALSE, FALSE)}

NextLock ==
  \/ \E t \in Threads, level \in ThreadLevels, fields \in ThreadFieldLists :
       RLock(t, level, fields)
  \/ \E t \in Threads : RUnlock(t)
  \/ \E t \in Threads : Invoke(t)
  \/ Lock
  \/ InitBootstrap
  \/ InitBootstrapLog
  \/ \E c \in LockConfigs : Init_(c)
  \/ InitNew
  \/ InitFail
  \/ InitInstall
  \/ InitLog
  \/ \E c \in LockConfigs, h \in Handles : UpgradeCount(c, h)
  \/ UpgradeDebug
  \/ UpgradeNew
  \/ UpgradeFail
  \/ UpgradeReplay
  \/ ReplayEntry
  \/ ReplayEnd
  \/ UpgradeInstall
  \/ UpgradeInfo

SpecLock == Init /\ [][NextLock]_vars

\* The threads that are inside a call on their snapshot: the read lock was
\* released, the call on the logger has not returned.
InEmitter == {t \in Threads : pc[t] = "snap"}

\* C28: the registry lock is not held while an emitter operation, the
\* factory or a replay runs: a caller holds the read lock only between RLock
\* and the snapshot, the main thread holds the write lock only for the
\* assignment of global; so with threads inside an emitter call the lock is
\* free for a swap and for another caller's snapshot.
C28_LockOnlyAroundReference ==
  /\ \A t \in Threads : t \in globalMu.r <=> pc[t] = "rlocked"
  /\ globalMu.w = "main" => mpc \in LockHeldAt
  /\ globalMu.w \in {"none", "main"}
  /\ (\A t \in Threads : pc[t] \in {"idle", "snap"}) =>
       /\ globalMu.r = {}
       /\ mpc \notin LockHeldAt => globalMu = Unlocked

\* The main thread holds the write lock for the swap of the upgrade while a
\* caller is inside a call on the buffer, after another call took its
\* snapshot and returned.
C28_Witness ==
  /\ globalMu.w = "main" /\ mpc = "up_install"
  /\ \E t \in Threads : pc[t] = "snap" /\ snap[t] = "buffer"
  /\ \E d \in done : d.snap = "buffer" /\ d.call.msg = "m1"

\* How many replayed calls carried message m.
ReplayedCalls(m) == Cardinality({i \in DOMAIN calls : calls[i].msg = m /\ calls[i].via = "replay"})

\* The messages ever appended to the current buffer.
AppendedMsgs == {appended[i].msg : i \in DOMAIN appended}

\* C29: append, ReplayTo and Count exclude each other, so the buffer a
\* running ReplayTo iterates is the one it found; every entry ever appended
\* is in the buffer or was replayed, and once no ReplayTo runs it is exactly
\* one of the two: an append that raced with a ReplayTo was replayed and
\* cleared, or it is in the buffer after the replay.
C29_BufferSerialized ==
  /\ mu \in {"free", "main"}
  /\ mu = "main" =>
       /\ idx >= 1
       /\ replays # <<>>
       /\ entries = replays[Len(replays)].before
  /\ mu = "free" => idx = 0
  /\ \A m \in AppendedMsgs :
       /\ Occurrences(appended, m) <= Occurrences(entries, m) + ReplayedCalls(m)
       /\ mu = "free" => Occurrences(appended, m) = Occurrences(entries, m) + ReplayedCalls(m)

\* A caller took the buffer as its snapshot before the replay and appended
\* after it: the replay emitted other entries, this one is in the buffer.
C29_Witness ==
  /\ mu = "free" /\ Len(replays) = 1
  /\ \E i \in DOMAIN calls : calls[i].via = "replay"
  /\ \E d \in done :
       /\ d.snap = "buffer"
       /\ Count(entries) >= 1
       /\ entries[Len(entries)].msg = d.call.msg
       /\ ReplayedCalls(d.call.msg) = 0

\* --------------------------------------------- a buffer filled to capacity
\* A buffer that has taken one call less than the capacity NewBuffered
\* allocated, used further by one thread through the BufferedLogger interface.
Earlier(n) == [i \in 1 .. n |-> logEntry(0, String(LevelInfo), "b" \o ToString(i), <<>>)]

InitFill ==
  /\ global = "nil"
  /\ entries = Earlier(bootstrapBufferCapacity - 1) /\ mu = "free" /\ idx = 0
  /\ calls = <<>> /\ output = <<>>
  /\ exited = 0
  /\ now = 0
  /\ pc = [t \in Threads |-> "idle"]
  /\ snap = [t \in Threads |-> "nil"]
  /\ cur = [t \in Threads |-> NoCall]
  /\ issued = 0
  /\ cfg = Config("", "", FALSE, FALSE) /\ handle = "nil"
  /\ bufferedCount = 0 /\ pending = <<>> /\ err = NoError /\ attempts = 0
  /\ appended = Earlier(bootstrapBufferCapacity - 1) /\ done = {} /\ replays = <<>>
  /\ sinceReplay = bootstrapBufferCapacity - 1
  /\ last = NoOp /\ nops = 0
  /\ realLogger = NoLogger
  /\ before = [global |-> "nil", real |-> NoLogger]
  /\ arg = NoArg /\ ret = NoArg
  /\ sink = <<>> /\ stderr = <<>> /\ emitted = <<>>
  /\ globalMu = Unlocked
  /\ real = newTextLogger(LevelDebug, <<"buf">>) /\ mpc = "handle" /\ budget = 0

NextFill ==
  \/ \E c \in BufferCalls : BufLog(c.level, c.fields)
  \/ BufCount
  \/ BufReplayTo
  \/ ReplayEntry
  \/ ReplayEnd

SpecFill == InitFill /\ [][NextFill]_vars

\* C30: Count() is the number of Debug/Info/Warn/Error/Fatal calls made on
\* the buffer since it was created or since the last ReplayTo that returned,
\* and the buffer holds exactly those calls' entries in call order, also
\* beyond the capacity of 20 it was allocated with.
C30_CountIsCallsSinceReplay ==
  /\ Count(entries) = sinceReplay
  /\ sinceReplay <= Len(appended)
  /\ entries = SubSeq(appended, Len(appended) - sinceReplay + 1, Len(appended))

\* Count() returned more than the capacity, and the first entry is still the
\* first one appended.
C30_Witness ==
  /\ last.op = "Count"
  /\ last.ret > bootstrapBufferCapacity
  /\ last.ret = Count(entries)
  /\ entries[1].msg = "b1"

\* ------------------------------------------- replay into a filtering logger
\* The messages of the lines in the sink that belong to the entries of the
\* k-th ReplayTo, in sink order (every call on the handle has its own message).
SinkMsgs(k) ==
  LET ms == {replays[k].before[i].msg : i \in DOMAIN replays[k].before}
      ls == SelectSeq(output, LAMBDA l : LineMsg(l) \in ms)
  IN [i \in DOMAIN ls |-> LineMsg(ls[i])]

\* The messages of the entries of b whose severity is at least the minimum
\* severity of the logger lg, or fatal, in append order.
AtLeastMsgs(b, lg) ==
  LET p == SelectSeq(b, LAMBDA e : e.level = "fatal" \/ \E l \in Levels : String(l) = e.level /\ l >= lg.level)
  IN [i \in DOMAIN p |-> p[i].msg]

\* No entry of b is in the buffer.
Removed(b) == \A i \in DOMAIN b : \A j \in DOMAIN entries : entries[j].msg # b[i].msg

\* C31 as stated: when a ReplayTo into a logger of minimum severity S is over,
\* the sink holds exactly the buffered entries of severity >= S and every Fatal
\* one, in append order, and none of the buffered entries is in the buffer.
C31_SinkHoldsEveryPassedEntry ==
  \A k \in DOMAIN replays :
     ReplayOver(k) =>
        /\ SinkMsgs(k) = AtLeastMsgs(replays[k].before, real)
        /\ Removed(replays[k].before)

\* C31 amended: the same for the entries up to and including the first Fatal
\* one (all entries when there is none); a replay of a buffer with a Fatal
\* entry ends the process at that entry and leaves the buffer as it was.
C31_SinkHoldsPassedUpToFatal ==
  \A k \in DOMAIN replays :
     LET b == replays[k].before
         f == FirstFatal(b)
     IN ReplayOver(k) =>
          /\ SinkMsgs(k) = AtLeastMsgs(SubSeq(b, 1, IF f = 0 THEN Len(b) ELSE f), real)
          /\ f = 0 => Removed(b)
          /\ f > 0 => exited = 1 /\ entries = b

\* C31 witness: a replay into the logger of minimum severity Warn returned;
\* of its debug and error entries only the error one is in the sink, and the
\* buffer is empty.
C31_Witness ==
  /\ idx = 0 /\ exited = 0 /\ entries = <<>>
  /\ real.level = LevelWarn
  /\ \E k \in DOMAIN replays :
       LET b == replays[k].before IN
       /\ Len(b) = 2 /\ b[1].level = "debug" /\ b[2].level = "error"
       /\ SinkMsgs(k) = <<b[2].msg>>

\* ------------------------------------ one real logger, concurrent callers
\* Two threads call the operations of the same text or JSON logger. Neither
\* logger type has a lock (errors.go:48-51, file.go:1078-1081): a call is a
\* sequence of Writes on l.output, and the Writes of two calls are ordered
\* only by the scheduler. Each Write is taken as atomic, as it is on a file.
ShareCalls ==
  { [level |-> LevelDebug, fields |-> <<>>],
    [level |-> LevelInfo, fields |-> <<>>],
    [level |-> LevelWarn, fields |-> <<NewField("user", "alice")>>],
    [level |-> LevelFatal, fields |-> <<>>] }

InitShare == InitEmit

\* The Writes the current call of thread t makes, and how many it has made.
WritesOf(t) == LoggerWrites(real, cur[t].level, cur[t].msg, cur[t].fields, now)
WritesMade(t) == Cardinality({i \in DOMAIN emitted : emitted[i].msg = cur[t].msg})

\* logger.Debug/Info/Warn/Error/Fatal(msg, fields...): the call begins.
ShareBegin(t, c) ==
  /\ exited = 0
  /\ pc[t] = "idle"
  /\ issued < MaxCalls
  /\ cur' = [cur EXCEPT ![t] = LogCall(c.level, MsgOf(issued + 1), c.fields)]
  /\ pc' = [pc EXCEPT ![t] = "write"]
  /\ issued' = issued + 1
  /\ UNCHANGED <<global, bufVars, sinkVars, exited, now, snap, done, mainVars, handleVars,
                 callVars, extVars, globalMu>>

\* The next Write of the call of thread t.
ShareWrite(t) ==
  /\ exited = 0
  /\ pc[t] = "write"
  /\ WritesMade(t) < Len(WritesOf(t))
  /\ sink' = Append(sink, Written(WritesOf(t)[WritesMade(t) + 1]))
  /\ emitted' = Append(emitted, [msg |-> cur[t].msg, t |-> t])
  /\ UNCHANGED <<global, bufVars, sinkVars, exited, now, threadVars, mainVars, handleVars,
                 callVars, arg, ret, stderr, globalMu>>

\* The call returns, or ends the process when it is Fatal.
ShareReturn(t) ==
  /\ exited = 0
  /\ pc[t] = "write"
  /\ WritesMade(t) = Len(WritesOf(t))
  /\ exited' = IF cur[t].level = LevelFatal THEN osExit(1) ELSE 0
  /\ pc' = [pc EXCEPT ![t] = "idle"]
  /\ done' = done \cup {[call |-> cur[t], snap |-> "real"]}
  /\ UNCHANGED <<global, bufVars, sinkVars, now, snap, cur, issued, mainVars, handleVars,
                 callVars, extVars, globalMu>>

NextShare ==
  \/ \E t \in Threads, c \in ShareCalls : ShareBegin(t, c)
  \/ \E t \in Threads : ShareWrite(t)
  \/ \E t \in Threads : ShareReturn(t)

SpecShare == InitShare /\ [][NextShare]_vars

\* C32: every line in the sink consists of the write segments of one call: a
\* segment that does not end a line is followed by a segment of the same call.
C32_LinesOfOneCall ==
  \A i \in 1 .. Len(sink) - 1 :
     sink[i].kind \notin {"newline", "fallback"} => emitted[i + 1].msg = emitted[i].msg

\* ------------------------------------------- the logger New returned, used
\* logger, err := New(cfg); if err == nil the caller logs through logger.
BuiltUse ==
  /\ exited = 0
  /\ mpc = "built"
  /\ err = NoError
  /\ real' = realLogger
  /\ mpc' = "logger"
  /\ UNCHANGED <<global, bufVars, calls, output, exited, now, threadVars, cfg, handle,
                 bufferedCount, pending, err, attempts, handleVars, callVars, extVars, globalMu>>

NextBuilt ==
  \/ CallNew
  \/ NewStep
  \/ BuiltUse
  \/ \E c \in BufferCalls : LoggerLog(c.level, c.fields)

SpecBuilt == InitFactory /\ [][NextBuilt]_vars

\* C33: a logger New returned has a minimum severity of at most Error, and
\* every Error call and every Fatal call made on it has its line in the output.
C33_ErrorAndFatalNeverSuppressed ==
  mpc = "logger" =>
     /\ real.level <= LevelError
     /\ \A i \in DOMAIN calls :
          calls[i].level \in {LevelError, LevelFatal} => LinesOf(calls[i].msg) = 1

\* C33 witness: on the logger New built for the level "error", a Warn call
\* left nothing and an Error call and a Fatal call left their lines.
C33_Witness ==
  /\ mpc = "logger" /\ cfg.Level = "error"
  /\ \E i, j, k \in DOMAIN calls :
       /\ calls[i].level = LevelWarn /\ LinesOf(calls[i].msg) = 0
       /\ calls[j].level = LevelError /\ LinesOf(calls[j].msg) = 1
       /\ calls[k].level = LevelFatal /\ LinesOf(calls[k].msg) = 1

\* --------------------------------------------- the keys of a JSON object
\* The keys of the members of the text of an object, from left to right.
RECURSIVE MemberKeys(_)
MemberKeys(data) ==
  IF Len(data) < 8 THEN <<>>
  ELSE <<data[3]>> \o MemberKeys(SubSeq(data, 9, Len(data)))

ReservedKeys == {jsonFieldTime, jsonFieldLevel, jsonFieldMsg}
FieldKeys(fields) == {fields[j].Key : j \in DOMAIN fields}

\* C34: the object a JSON logger emits has exactly one member per distinct
\* key among time, level, msg and the keys of the call's fields; the value
\* under a field's key, reserved or not, is that of the last field of the
\* call with that key, and a reserved key no field uses has its own value.
C34_LastFieldWinsOneEntryPerKey ==
  real.kind = "json" =>
    \A i \in LinesEmitted :
      LET c == emitted[i].call
          keys == MemberKeys(OnSink(i)[1].text)
      IN
      /\ {keys[n] : n \in DOMAIN keys} = ReservedKeys \cup FieldKeys(c.fields)
      /\ Len(keys) = Cardinality(ReservedKeys \cup FieldKeys(c.fields))
      /\ \A j \in DOMAIN c.fields :
           LastOfKey(c.fields, j) => Decoded(i)[c.fields[j].Key] = c.fields[j].Value
      /\ jsonFieldMsg \notin FieldKeys(c.fields) => Decoded(i)[jsonFieldMsg] = c.msg
      /\ jsonFieldLevel \notin FieldKeys(c.fields) => Decoded(i)[jsonFieldLevel] = String(c.level)
      /\ jsonFieldTime \notin FieldKeys(c.fields) => Decoded(i)[jsonFieldTime] = FormatRFC3339(now)

\* C34 witness: a call with a field under the key msg was emitted as an
\* object of three members whose msg is the field's value, and another with
\* fields under time and level as an object with the fields' values.
C34_Witness ==
  /\ real.kind = "json"
  /\ \E i \in LinesEmitted :
       /\ emitted[i].call.fields = <<NewField("msg", "other")>>
       /\ Len(MemberKeys(OnSink(i)[1].text)) = 3
       /\ Decoded(i)["msg"] = "other"
       /\ emitted[i].call.msg # "other"
  /\ \E i \in LinesEmitted :
       /\ emitted[i].call.fields = <<NewField("time", "noon"), NewField("level", "loud")>>
       /\ Decoded(i)["time"] = "noon" /\ Decoded(i)["level"] = "loud"

\* ----------------------------------------- validation, then the factory
\* A loaded configuration is validated and, when validateConfig returns nil,
\* passed to New.
LoadedConfigs ==
  {AppConfig("lazispace", l, f, c, file, TRUE, "", "") :
     l \in FactoryLevels \cup {"info", "Debug"}, f \in FactoryFormats \cup {"JSON"},
     c \in BOOLEAN,
     file \in {FileLogConfig(FALSE, "", 0, 0, 0), FileLogConfig(TRUE, "app.log", 100, 5, 30),
               FileLogConfig(TRUE, "", 100, 5, 30)}}

InitValidated == InitUnitWith({[fn |-> "validateConfig", cfg |-> c] : c \in LoadedConfigs})

\* cfg.Log as New reads it.
LogConfigOf(c) == Config(c.Log.Level, c.Log.Format, c.Log.Console.Enabled, c.Log.File.Enabled)

\* if err := validateConfig(cfg); err == nil { logger.New(cfg) }
ValidatedNew ==
  /\ mpc = "returned"
  /\ arg.fn = "validateConfig"
  /\ ret = NoError
  /\ cfg' = LogConfigOf(arg.cfg)
  /\ mpc' = "factory"
  /\ UNCHANGED <<global, bufVars, sinkVars, exited, now, threadVars, handle, bufferedCount,
                 pending, err, attempts, handleVars, callVars, extVars, globalMu>>

NextValidated ==
  \/ CallValidateConfig
  \/ ValidatedNew
  \/ CallNew
  \/ NewStep

SpecValidated == InitValidated /\ [][NextValidated]_vars

\* C35: New returns a logger and no error for every configuration
\* validateConfig accepted: its level parses, its format is text or json, and
\* it has a writer.
C35_ValidatedConfigBuilds ==
  (mpc \in {"factory", "factory_new", "built"} /\ validateConfig(arg.cfg) = NoError) =>
     /\ parseLevel(cfg.Level).err = NoError
     /\ cfg.Format \in {FormatText, FormatJSON}
     /\ Len(Writers(cfg)) > 0
     /\ mpc = "built" => err = NoError /\ realLogger.kind \in {"text", "json"}

\* C35 witness: New built the JSON logger of minimum level Warn with the file
\* writer alone for a validated configuration.
C35_Witness ==
  /\ mpc = "built" /\ ret = NoError /\ err = NoError
  /\ arg.cfg.Log.Level = "warn" /\ arg.cfg.Log.Format = "json"
  /\ ~arg.cfg.Log.Console.Enabled /\ arg.cfg.Log.File.Enabled
  /\ realLogger = newJSONLogger(LevelWarn, Writers(cfg))

\* ------------------------------------------------ the count the upgrade reports
\* C36: when UpgradeFromBootstrap has returned nil, the replayed_logs count it
\* reported (bufferedCount) is the number of buffered entries its ReplayTo
\* replayed into the new logger.
C36_ReportedCountIsReplayed ==
  (mpc = "done" /\ err = NoError /\ exited = 0 /\ replays # <<>>) =>
     /\ bufferedCount = Len(replays[Len(replays)].before)
     /\ bufferedCount = Len(ReplayOps(Len(replays)))

\* --------------------------------------- replay into a target that logs back
\* The buffer is the current logger of the registry. Caller threads log
\* through its handle; the main thread replays it into a target that is a
\* real logger, the buffer itself (a bufferedLogger is a Logger), or a Logger
\* that passes each call on to the package-level functions. append takes
\* b.mu (part_002:89), which ReplayTo holds from line 110 to its return.
SelfTarget == [kind |-> "buffer", level |-> LevelDebug, writers |-> <<>>]
ForwardTarget == [kind |-> "forward", level |-> LevelDebug, writers |-> <<>>]
WaitTargets == {newTextLogger(LevelDebug, <<"buf">>), SelfTarget, ForwardTarget}

InitWait ==
  /\ global = "buffer"
  /\ entries = <<>> /\ mu = "free" /\ idx = 0
  /\ calls = <<>> /\ output = <<>>
  /\ exited = 0
  /\ now = 0
  /\ pc = [t \in Threads |-> "idle"]
  /\ snap = [t \in Threads |-> "nil"]
  /\ cur = [t \in Threads |-> NoCall]
  /\ issued = 0
  /\ cfg = Config("", "", FALSE, FALSE) /\ handle = "nil"
  /\ bufferedCount = 0 /\ pending = <<>> /\ err = NoError /\ attempts = 0
  /\ appended = <<>> /\ done = {} /\ replays = <<>> /\ sinceReplay = 0
  /\ last = NoOp /\ nops = 0
  /\ realLogger = NoLogger
  /\ before = [global |-> "nil", real |-> NoLogger]
  /\ arg = NoArg /\ ret = NoArg
  /\ sink = <<>> /\ stderr = <<>> /\ emitted = <<>>
  /\ globalMu = Unlocked
  /\ real \in WaitTargets /\ mpc = "handle" /\ budget = 0

\* buffer.Debug/Info/Warn/Error/Fatal(msg, fields...) by thread t: the call
\* has entered append and stands before b.mu.Lock().
WaitLog(t, c) ==
  /\ exited = 0
  /\ pc[t] = "idle"
  /\ issued < MaxCalls
  /\ cur' = [cur EXCEPT ![t] = LogCall(c.level, MsgOf(issued + 1), c.fields)]
  /\ pc' = [pc EXCEPT ![t] = "lock"]
  /\ issued' = issued + 1
  /\ UNCHANGED <<global, bufVars, sinkVars, exited, now, snap, done, mainVars, handleVars,
                 callVars, extVars, globalMu>>

\* append, lines 89-97, for the caller w (a thread, or the main thread
\* inside ReplayTo's call of its target): Lock, append, Unlock, return.
WaitAppend(w) ==
  /\ exited = 0
  /\ IF w = "main"
     THEN /\ mpc = "lock"
          /\ \E exit \in {0, 1} :
               /\ Deliver("buffer", Head(pending), exit)
               /\ exited' = exit
          /\ pending' = <<>>
          /\ mpc' = "replaying"
          /\ UNCHANGED threadVars
     ELSE /\ pc[w] = "lock"
          /\ \E exit \in {0, 1} :
               /\ Deliver("buffer", cur[w], exit)
               /\ exited' = exit
          /\ pc' = [pc EXCEPT ![w] = "idle"]
          /\ done' = done \cup {[call |-> cur[w], snap |-> "buffer"]}
          /\ UNCHANGED <<snap, cur, issued, mpc, pending>>
  /\ UNCHANGED <<global, now, cfg, handle, bufferedCount, err, attempts, handleVars,
                 callVars, extVars, globalMu>>

\* ReplayTo, lines 113-134, for a real logger as the target.
ReplayEntryReal ==
  /\ real.kind \in {"text", "json"}
  /\ ReplayEntry

\* ReplayTo, lines 113-134, for the buffer itself or the forwarding logger as
\* the target: target.X(entry.msg, fieldsWithBootstrap...) reaches, directly
\* or through the package-level function and the current logger, the append
\* of the buffer that is being replayed.
ReplayIntoSelf ==
  /\ exited = 0
  /\ mpc = "replaying"
  /\ idx >= 1 /\ idx <= Len(entries)
  /\ real.kind = "buffer" \/ (real.kind = "forward" /\ global = "buffer")
  /\ ReplayLevel(entries[idx]) # -1
  /\ pending' = <<LogCall(ReplayLevel(entries[idx]), entries[idx].msg,
                          fieldsWithBootstrap(entries[idx]))>>
  /\ idx' = idx + 1
  /\ mpc' = "lock"
  /\ UNCHANGED <<global, entries, mu, appended, replays, sinceReplay, sinkVars, exited, now,
                 threadVars, cfg, handle, bufferedCount, err, attempts, handleVars, callVars,
                 extVars, globalMu>>

NextWait ==
  \/ \E t \in Threads, c \in BufferCalls : WaitLog(t, c)
  \/ \E w \in Threads \cup {"main"} : WaitAppend(w)
  \/ BufReplayTo
  \/ ReplayEntryReal
  \/ ReplayIntoSelf
  \/ ReplayEnd

SpecWait == InitWait /\ [][NextWait]_vars

\* The callers that are inside an operation of the buffer.
InOperation ==
  {t \in Threads : pc[t] = "lock"} \cup (IF mpc \in {"lock", "replaying"} THEN {"main"} ELSE {})

\* A step of a caller that is inside an operation.
Proceed ==
  \/ \E w \in Threads \cup {"main"} : WaitAppend(w)
  \/ ReplayEntryReal
  \/ ReplayIntoSelf
  \/ ReplayEnd

\* C37: no deadlock. While the process runs and a caller is inside an
\* operation of the buffer, some caller inside an operation can take its next
\* step, and the main thread never waits for the mutex its own ReplayTo holds.
C37_NoDeadlock ==
  /\ (exited = 0 /\ InOperation # {}) => ENABLED Proceed
  /\ ~(mpc = "lock" /\ mu = "main")

====
